---- MODULE Spec2Model ----
(***************************************************************************)
(* Model of the stepwise inference pipeline of mistralrs-core: the step    *)
(* orchestrator (Pipeline::step), the input marshaller (get_prompt_input,  *)
(* get_completion_input) and the per-layer key/value cache update of the   *)
(* attention blocks of the model families.                                 *)
(*                                                                         *)
(* A tensor is modelled by its shape.  A cached K or V tensor              *)
(* [b, heads, time, head_dim] is the record [b, h, t, d] whose time axis t *)
(* is the sequence of the ids of the cached entries, oldest first, so that *)
(* a narrow along the time axis keeps identifiable entries.  An            *)
(* Option<T> is the empty sequence (None) or a one-element sequence.       *)
(***************************************************************************)
EXTENDS Integers, Sequences, FiniteSets, TLC

VARIABLES
    model,  \* the configuration of the loaded model
    seqs,   \* the sequences: token list and own per-layer cache copies
    cache,  \* the model's cache store: one slot per layer
    pc,     \* the position of Pipeline::step, "idle" between steps
    st,     \* the arguments and locals of the current (or last) step
    ret,    \* the result of the last step: "none", "ok" or "err"
    hist,   \* whether the steps so far are one prefill followed by decodes
    attn,   \* SpecAttn: one cache slot and the last forward call made on it
    marsh,  \* SpecMarshal: a batch of sequences and the inputs marshalled from it
    lg,     \* SpecLogits: a logits shape, context_lens and the rows extracted
    qz,     \* SpecQuant: the projections of a model and the quantize call on them
    xp,     \* SpecXLoraPaths: the arguments and the result of get_xlora_paths
    xl,     \* SpecXLora: an X-LoRA model, its two cache lists and its forward
    moe,    \* SpecMoE: routing weights of the token rows and the routing made of them
    pd,     \* SpecContinuity: a prompt run as prefill + decode and as one prefill
    nm,     \* SpecDispatch: one NormalModel called through is_xlora()
    ts      \* SpecToml: one model table through the TOML selector

pipe == <<model, seqs, cache, pc, st, ret, hist>>

\* the variables of the specifications of single functions
units == <<lg, qz, xp, xl, moe, pd, nm, ts>>

vars == <<model, seqs, cache, pc, st, ret, hist, attn, marsh, lg, qz, xp, xl, moe, pd, nm, ts>>

(***************************************************************************)
(* Bounds of the model.                                                    *)
(***************************************************************************)
\* largest number of tokens one attention call of the unit specification submits
MaxQ == 3
\* number of attention calls the unit specification makes on one slot
MaxCalls == 4
\* largest sliding window / max_seq_len of the configurations of the unit specification
MaxW == 3
\* largest number of tokens of a sequence handed to the marshaller
MaxLen == 3
\* largest number of sequences of a batch handed to the marshaller
MaxBatch == 2
\* number of decoder layers of the model of the pipeline specification
NLayers == 2
\* largest prompt of the pipeline specification
MaxPrompt == 3
\* number of experts of the Mixture-of-Experts block
NExperts == 4
\* number of decoder layers of the model of the quantization specification
NQLayers == 1
\* number of calls of NormalModel::quantize the quantization specification follows
MaxQuantCalls == 2
\* number of calls of step the pipeline specification follows
MaxSteps == 2
\* sliding window of the Mistral model of the pipeline specification
PipeWindow == 2
\* max_position_embeddings / context length of the models of the pipeline specification
PipeMaxSeqLen == 3

None == <<>>

Some(x) == <<x>>

IsSome(o) == Len(o) = 1

Unwrap(o) == o[1]

Min(a, b) == IF a <= b THEN a ELSE b

Max(a, b) == IF a >= b THEN a ELSE b

(***************************************************************************)
(* Model families and their configuration.                                 *)
(***************************************************************************)
Families == {"llama", "mistral", "phi2", "qllama", "qphi3", "xgemma", "xllama"}

\* families whose attention block trims the cache to a sliding window
SlidingFamilies == {"mistral", "qphi3"}

\* families whose attention block carries the Llama eviction code
LlamaFamilies == {"llama", "xllama"}

(***************************************************************************)
(* Tensor operations (candle): each returns [ok, t]; ok = FALSE is the     *)
(* Err result of the operation.                                            *)
(***************************************************************************)
Fail == [ok |-> FALSE]

Tensor(b, h, t, d) == [b |-> b, h |-> h, t |-> t, d |-> d]

\* Tensor::narrow(2, start, len): start + len must lie within the time axis
NarrowTime(x, start, len) ==
    IF start < 0 \/ len < 0 \/ start + len > Len(x.t)
    THEN Fail
    ELSE [ok |-> TRUE, t |-> [x EXCEPT !.t = SubSeq(x.t, start + 1, start + len)]]

\* Tensor::narrow(D::Minus1, start, len): start + len must lie within head_dim
NarrowLast(x, start, len) ==
    IF start < 0 \/ len < 0 \/ start + len > x.d
    THEN Fail
    ELSE [ok |-> TRUE, t |-> [x EXCEPT !.d = len]]

\* kvconcat / Tensor::cat along the time axis: every other dimension must agree
CatTime(x, y) ==
    IF x.b # y.b \/ x.h # y.h \/ x.d # y.d
    THEN Fail
    ELSE [ok |-> TRUE, t |-> [x EXCEPT !.t = x.t \o y.t]]

\* the ids given to q_len new entries appended after the entries of a slot
NewIds(slot, q) ==
    LET base == IF IsSome(slot) /\ Len(Unwrap(slot).k.t) > 0
                THEN Unwrap(slot).k.t[Len(Unwrap(slot).k.t)]
                ELSE 0
    IN [i \in 1..q |-> base + i]

\* number of entries cached along the time axis of a slot (0 for None)
CachedLen(slot) == IF IsSome(slot) THEN Len(Unwrap(slot).k.t) ELSE 0

(***************************************************************************)
(* The attention mask handed to an attention block: None, or a             *)
(* [q_len, k_len] tensor, modelled by its shape [q, k].                    *)
(***************************************************************************)
Mask(q, k) == [q |-> q, k |-> k]

\* Tensor::narrow(1, start, len) on a mask
MaskNarrow(m, start, len) ==
    IF start < 0 \/ len < 0 \/ start + len > m.k
    THEN Fail
    ELSE [ok |-> TRUE, m |-> Mask(m.q, len)]

\* The mask trimming of the sliding-window branch: the mask is narrowed to its
\* last W-1 columns, then one column is read at index mask_len-1 OF THE
\* NARROWED mask and appended.
TrimMask(m, W) ==
    LET mask_len == m.k
        n1 == MaskNarrow(m, mask_len - (W - 1), W - 1)
    IN  IF ~n1.ok THEN Fail
        ELSE LET n2 == MaskNarrow(n1.m, mask_len - 1, 1)
             IN  IF ~n2.ok THEN Fail
                 ELSE [ok |-> TRUE, m |-> Mask(m.q, n1.m.k + n2.m.k)]

(***************************************************************************)
(* The cache update of each attention block: from the slot and the new     *)
(* k, v (and the mask) to [ok, k, v, mask], the tensors written back to    *)
(* the slot and used by the attention product.                             *)
(***************************************************************************)
\* mutant of TrimStart: the trim keeps the oldest W-1 entries
TrimStart_KeepsOldest(kv_seq_len, W) == 0

\* the start index of the cached entries kept by the sliding-window trim
TrimStart(kv_seq_len, W) == kv_seq_len - (W - 1)

\* the trim condition of the sliding-window branch
TrimFires(kv_seq_len, W) == kv_seq_len > W

\* Mistral Attention::forward and quantized Phi-3 forward_attn; sw is the
\* Option<usize> sliding window (always Some for Phi-3)
SlidingCache(sw, slot, k, v, mask) ==
    IF ~IsSome(slot)
    THEN [ok |-> TRUE, k |-> k, v |-> v, mask |-> mask]
    ELSE LET prev == Unwrap(slot)
             kv_seq_len == Len(prev.k.t)
             trim == IsSome(sw) /\ TrimFires(kv_seq_len, Unwrap(sw))
             W == Unwrap(sw)
             pk == IF trim THEN NarrowTime(prev.k, TrimStart(kv_seq_len, W), W - 1)
                   ELSE [ok |-> TRUE, t |-> prev.k]
             pv == IF trim THEN NarrowTime(prev.v, TrimStart(kv_seq_len, W), W - 1)
                   ELSE [ok |-> TRUE, t |-> prev.v]
             m == IF trim /\ IsSome(mask)
                  THEN LET tm == TrimMask(Unwrap(mask), W)
                       IN  IF tm.ok THEN [ok |-> TRUE, m |-> Some(tm.m)] ELSE Fail
                  ELSE [ok |-> TRUE, m |-> mask]
         IN  IF ~pk.ok \/ ~pv.ok \/ ~m.ok THEN Fail
             ELSE LET ck == CatTime(pk.t, k)
                      cv == CatTime(pv.t, v)
                  IN  IF ~ck.ok \/ ~cv.ok THEN Fail
                      ELSE [ok |-> TRUE, k |-> ck.t, v |-> cv.t, mask |-> m.m]

\* the length the Llama block compares with max_seq_len: dims()[1] of a
\* [b, heads, time, head_dim] tensor
LlamaSeqLen(x) == x.h

\* the eviction of the Llama block, applied to the concatenated tensor
LlamaEvict(x, seq_len, max_seq_len) == NarrowLast(x, seq_len - max_seq_len, max_seq_len)

\* Llama and X-LoRA Llama CausalSelfAttention::forward
LlamaCache(max_seq_len, slot, k, v, mask) ==
    IF ~IsSome(slot)
    THEN [ok |-> TRUE, k |-> k, v |-> v, mask |-> mask]
    ELSE LET ck == CatTime(Unwrap(slot).k, k)
             cv == CatTime(Unwrap(slot).v, v)
         IN  IF ~ck.ok \/ ~cv.ok THEN Fail
             ELSE LET k_seq_len == LlamaSeqLen(ck.t)
                      v_seq_len == LlamaSeqLen(cv.t)
                      ek == IF k_seq_len > max_seq_len
                            THEN LlamaEvict(ck.t, k_seq_len, max_seq_len)
                            ELSE ck
                      ev == IF v_seq_len > 2 * max_seq_len
                            THEN LlamaEvict(cv.t, v_seq_len, max_seq_len)
                            ELSE cv
                  IN  IF ~ek.ok \/ ~ev.ok THEN Fail
                      ELSE [ok |-> TRUE, k |-> ek.t, v |-> ev.t, mask |-> mask]

\* mutant of PlainCache: the new keys and values replace the cached ones
PlainCache_Overwrites(slot, k, v, mask) == [ok |-> TRUE, k |-> k, v |-> v, mask |-> mask]

\* Phi-2, quantized Llama and X-LoRA Gemma: concatenation, no eviction
PlainCache(slot, k, v, mask) ==
    IF ~IsSome(slot)
    THEN [ok |-> TRUE, k |-> k, v |-> v, mask |-> mask]
    ELSE LET ck == CatTime(Unwrap(slot).k, k)
             cv == CatTime(Unwrap(slot).v, v)
         IN  IF ~ck.ok \/ ~cv.ok THEN Fail
             ELSE [ok |-> TRUE, k |-> ck.t, v |-> cv.t, mask |-> mask]

\* the cache update of the family of configuration cfg
FamilyCache(cfg, slot, k, v, mask) ==
    IF cfg.fam \in SlidingFamilies THEN SlidingCache(cfg.sw, slot, k, v, mask)
    ELSE IF cfg.fam \in LlamaFamilies THEN LlamaCache(cfg.max_seq_len, slot, k, v, mask)
    ELSE PlainCache(slot, k, v, mask)

\* the number of heads K is reshaped with before the rotary encoding
KHeads(cfg) == IF cfg.fam = "qphi3" THEN cfg.heads ELSE cfg.kvh

\* the reshape of the projected K to [b, q, heads, head_dim] succeeds when the
\* element counts agree
KReshapeOk(cfg) == KHeads(cfg) * cfg.hd = cfg.kvh * cfg.hd

\* quantized Phi-3 apply_rotary_emb: cos/sin (context_window rows) are narrowed
\* to offset .. offset + seq_len for every sequence of the batch
Phi3RopeOk(cfg, offsets, q) ==
    \A i \in 1..Len(offsets) : offsets[i] + q <= cfg.max_seq_len

\* RotaryEmbedding::forward of the other families: tables of
\* max_position_embeddings rows; a window that leaves the table either fails
\* (table lookup on the host) or is not checked (fused kernel)
RotaryOutcomes(cfg, offsets, q) ==
    IF cfg.fam = "qphi3" THEN {Phi3RopeOk(cfg, offsets, q)}
    ELSE IF \A i \in 1..Len(offsets) : offsets[i] + q <= cfg.max_pos
         THEN {TRUE}
         ELSE {TRUE, FALSE}

\* CausalMasker.apply_mask and the two matmuls of the attention product:
\* q . k^T needs head_dim to agree, the mask must have one column per key,
\* att . v needs as many values as keys
ProductOk(cfg, q, r) ==
    /\ r.k.d = cfg.hd
    /\ r.v.d = cfg.hd
    /\ Len(r.k.t) = Len(r.v.t)
    /\ IsSome(r.mask) => (Unwrap(r.mask).k = Len(r.k.t) /\ Unwrap(r.mask).q = q)

(***************************************************************************)
(* One attention block's forward on batch size b with q new tokens per     *)
(* row: [ok, wrote, slot].  wrote tells whether the slot was written       *)
(* before the block returned; an Err after the write leaves the new slot.  *)
(***************************************************************************)
AttnForward(cfg, slot, b, q, mask, ropeOk, kernelOk) ==
    LET ids == NewIds(slot, q)
        k == Tensor(b, KHeads(cfg), ids, cfg.hd)
        v == Tensor(b, cfg.kvh, ids, cfg.hd)
        unwritten == [ok |-> FALSE, wrote |-> FALSE, slot |-> slot, mask |-> mask]
    IN  IF ~KReshapeOk(cfg) \/ ~ropeOk THEN unwritten
        ELSE LET r == FamilyCache(cfg, slot, k, v, mask)
             IN  IF ~r.ok THEN unwritten
                 ELSE [ok |-> ProductOk(cfg, q, r) /\ kernelOk,
                       wrote |-> TRUE,
                       slot |-> Some([k |-> r.k, v |-> r.v]),
                       mask |-> r.mask]

(***************************************************************************)
(* SpecAttn: one cache slot of one attention block, driven by successive   *)
(* forward calls with every q_len and mask option, for every               *)
(* configuration of AttnConfigs.  pos counts the tokens of the sequence    *)
(* the block has processed: it is the rotary offset of the next call.      *)
(***************************************************************************)
Config(fam, sw, max_seq_len, heads, kvh, hd) ==
    [fam |-> fam, sw |-> sw, max_seq_len |-> max_seq_len, max_pos |-> max_seq_len,
     heads |-> heads, kvh |-> kvh, hd |-> hd]

\* X-LoRA Gemma: the rotary tables have cfg.max_position_embeddings rows, and
\* max_seq_len is default_max_position_embeddings() whatever the configuration
GemmaConfig(default_max_pos, max_position_embeddings) ==
    [Config("xgemma", None, default_max_pos, 2, 1, 2)
        EXCEPT !.max_pos = max_position_embeddings]

AttnConfigs ==
    {Config("mistral", sw, MaxW + 2, 2, kvh, 2) :
        sw \in {None} \cup {Some(w) : w \in 2..MaxW}, kvh \in {1, 2}}
    \cup {Config("qphi3", Some(w), w, 2, kvh, 2) : w \in 2..MaxW, kvh \in {1, 2}}
    \cup {Config(fam, None, m, 3, kvh, 4) :
            fam \in LlamaFamilies, m \in 2..MaxW, kvh \in {1, 3}}
    \cup {Config(fam, None, MaxW, 2, 1, 2) : fam \in {"phi2", "qllama"}}
    \cup {GemmaConfig(MaxW, p) : p \in {MaxW, MaxW + 1}}

StIdle == [is_prompt |-> FALSE, pre_op |-> "Nonthing", post_op |-> "Nonthing", n |-> 0,
           inputs |-> None, mask |-> None, layer |-> 0, before |-> <<>>,
           afterPre |-> <<>>, failed |-> "none", logits |-> None, log |-> <<>>,
           order |-> <<>>, written |-> <<>>]

\* no step was called yet
HistNew == [steps |-> 0, kind |-> "new"]

\* the pipeline variables of the specifications that do not run the pipeline
PipeIdle ==
    /\ model = None
    /\ seqs = <<>>
    /\ cache = <<>>
    /\ pc = "idle"
    /\ st = StIdle
    /\ ret = "none"
    /\ hist = HistNew

\* the variables of the specifications of single functions, not in use
UnitsIdle == lg = None /\ qz = None /\ xp = None /\ xl = None /\ moe = None /\ pd = None /\ nm = None /\ ts = None

AttnIdle == [cfg |-> None, slot |-> None, pos |-> 0, calls |-> 0, last |-> None]

MarshIdle == [seqs |-> <<>>, out |-> None]

AttnInit ==
    /\ PipeIdle
    /\ marsh = MarshIdle
    /\ UnitsIdle
    /\ attn \in {[cfg |-> c, slot |-> None, pos |-> 0, calls |-> 0, last |-> None] :
                c \in AttnConfigs}

\* one forward call of the block on its slot
AttnCall ==
    /\ attn.calls < MaxCalls
    /\ \E q \in 1..MaxQ, hasMask \in BOOLEAN :
         \E ropeOk \in RotaryOutcomes(attn.cfg, <<attn.pos>>, q) :
            LET mask == IF hasMask THEN Some(Mask(q, CachedLen(attn.slot) + q)) ELSE None
                r == AttnForward(attn.cfg, attn.slot, 1, q, mask, ropeOk, TRUE)
            IN  attn' = [attn EXCEPT
                            !.slot = r.slot,
                            !.pos = IF r.ok THEN @ + q ELSE @,
                            !.calls = @ + 1,
                            !.last = Some([prev |-> attn.slot, q |-> q, mask |-> mask,
                                           off |-> attn.pos, ok |-> r.ok, wrote |-> r.wrote,
                                           outmask |-> r.mask])]
    /\ UNCHANGED <<pipe, marsh, units>>

AttnNext == AttnCall

SpecAttn == AttnInit /\ [][AttnNext]_vars

\* the last call of the unit specification wrote the slot, appending q tokens
\* to a non-empty slot
Appended(q) ==
    /\ IsSome(attn.last)
    /\ Unwrap(attn.last).wrote
    /\ Unwrap(attn.last).q = q
    /\ IsSome(Unwrap(attn.last).prev)

PrevSlot == Unwrap(Unwrap(attn.last).prev)

NowSlot == Unwrap(attn.slot)

\* C5 (as stated): in a sliding-window model, appending one token to a non-empty
\* slot of cached_len entries leaves exactly min(cached_len + 1, W) entries.
C5_MinLenAfterAppend ==
    (attn.cfg.fam \in SlidingFamilies /\ IsSome(attn.cfg.sw) /\ Appended(1))
        => Len(NowSlot.k.t) = Min(Len(PrevSlot.k.t) + 1, Unwrap(attn.cfg.sw))

\* C7 (as stated): for every model family, every non-empty cache slot has a
\* cached length of at most the model's max_seq_len, after any sequence of
\* prefill and decode calls.
C7_CachedLenBounded ==
    IsSome(attn.slot) => /\ Len(NowSlot.k.t) <= attn.cfg.max_seq_len
                         /\ Len(NowSlot.v.t) <= attn.cfg.max_seq_len

\* an X-LoRA Gemma slot longer than max_seq_len although every rotary window
\* stayed inside the cos/sin tables
GemmaPastMaxSeqLen ==
    /\ attn.cfg.fam = "xgemma"
    /\ IsSome(attn.slot)
    /\ Len(NowSlot.k.t) > attn.cfg.max_seq_len
    /\ attn.pos <= attn.cfg.max_pos

\* C8 (as stated): in the Llama blocks eviction fires only when the cached
\* length along the time axis exceeds 2 * max_seq_len, it keeps the most recent
\* max_seq_len entries of the time axis, and K and V are trimmed alike.
C8_LlamaEviction ==
    (attn.cfg.fam \in LlamaFamilies /\ IsSome(attn.last) /\ Unwrap(attn.last).wrote
       /\ IsSome(Unwrap(attn.last).prev))
        => LET m == attn.cfg.max_seq_len
               cat == PrevSlot.k.t \o NewIds(Unwrap(attn.last).prev, Unwrap(attn.last).q)
               n == Len(cat)
               evicted == SubSeq(cat, n - m + 1, n)
               Kept(x) == /\ x.d = attn.cfg.hd
                          /\ x.h = attn.cfg.kvh
                          /\ \/ x.t = cat
                             \/ n > 2 * m /\ x.t = evicted
           IN  /\ Kept(NowSlot.k)
               /\ Kept(NowSlot.v)
               /\ NowSlot.k.t = NowSlot.v.t

LastCall == Unwrap(attn.last)

\* C23 (as stated): the fused-QKV block of the quantized Phi-3 shapes Q with
\* heads heads and K and V with kv_heads heads, and its forward succeeds for
\* every configuration with heads mod kv_heads = 0, kv_heads < heads
\* included (first call on an empty slot, rotary window inside the tables).
C23_FusedQkvSucceeds ==
    (/\ attn.cfg.fam = "qphi3"
     /\ attn.cfg.heads % attn.cfg.kvh = 0
     /\ IsSome(attn.last)
     /\ LastCall.prev = None
     /\ LastCall.off + LastCall.q <= attn.cfg.max_seq_len)
        => /\ LastCall.ok
           /\ NowSlot.k.h = attn.cfg.kvh
           /\ NowSlot.v.h = attn.cfg.kvh

\* C24 (as stated, on the family whose rotary lookup is in the source): when
\* the sequence of a quantized Phi-3 block has reached exactly the maximum
\* position count (as many cached entries as positions), one more decode
\* step succeeds.
C24_StepPastMaxPositions ==
    (/\ attn.cfg.fam = "qphi3"
     /\ IsSome(attn.last)
     /\ LastCall.q = 1
     /\ LastCall.off = attn.cfg.max_seq_len
     /\ CachedLen(LastCall.prev) = LastCall.off)
        => LastCall.ok

\* C26 (as stated): in a sliding-window block, when a cached slot longer than
\* W is trimmed and a mask is present (rotary window inside the tables, K
\* shaped with kv_heads), the step succeeds and the mask handed to the
\* attention product has as many key columns as the concatenated K.
C26_MaskTrimmedWithCache ==
    (/\ attn.cfg.fam \in SlidingFamilies
     /\ IsSome(attn.cfg.sw)
     /\ KReshapeOk(attn.cfg)
     /\ IsSome(attn.last)
     /\ IsSome(LastCall.prev)
     /\ TrimFires(CachedLen(LastCall.prev), Unwrap(attn.cfg.sw))
     /\ IsSome(LastCall.mask)
     /\ LastCall.off + LastCall.q <= attn.cfg.max_pos)
        => /\ LastCall.ok
           /\ IsSome(LastCall.outmask)
           /\ Unwrap(LastCall.outmask).k = Len(NowSlot.k.t)

(***************************************************************************)
(* The input marshaller.  A batch is the sequence of the token lists of    *)
(* its sequences (Sequence::get_toks; Sequence::len is the number of       *)
(* tokens, at least 1 for every sequence the engine admits).  A result is  *)
(* [st |-> "ok", v |-> value], [st |-> "err"] (an Err result) or           *)
(* [st |-> "panic"] (unwrap / expect on a failure).  Pipeline::step passes *)
(* last_n_context_len = None, which is what is modelled.                   *)
(***************************************************************************)
Ok(v) == [st |-> "ok", v |-> v]

Err == [st |-> "err"]

Panic == [st |-> "panic"]

padding_tok == 0

MaxOf(S) == CHOOSE m \in S : \A x \in S : x <= m

\* mutant of Pad: the padding is put before the tokens
Pad_Left(ctxt, max_len) ==
    [i \in 1..Max(0, max_len - Len(ctxt)) |-> padding_tok] \o ctxt

\* ctxt.extend(repeat(padding_tok).take(max_len.saturating_sub(ctxt.len())))
Pad(ctxt, max_len) ==
    ctxt \o [i \in 1..Max(0, max_len - Len(ctxt)) |-> padding_tok]

\* mutant of prompt_context_len: the first position is extracted
prompt_context_len_First(seq_len) == <<0, 1>>

\* (seq.len() - last_n.unwrap_or(1), last_n.unwrap_or(1)) of one sequence
prompt_context_len(seq_len) == <<seq_len - 1, 1>>

\* get_prompt_input with last_n_context_len = None
get_prompt_input(toks) ==
    IF Len(toks) = 0 THEN Panic
    ELSE LET B == Len(toks)
             max_len == MaxOf({Len(toks[i]) : i \in 1..B})
         IN  Ok([input |-> [i \in 1..B |-> Pad(toks[i], max_len)],
                 positions |-> [i \in 1..B |-> 0],
                 positions_kernel |-> [i \in 1..B |-> [j \in 1..max_len |-> j - 1]],
                 context_lens |-> [i \in 1..B |-> prompt_context_len(Len(toks[i]))],
                 position_ids |-> [i \in 1..B |-> Len(toks[i])]])

\* mutant of completion_start_pos: the whole token list is submitted
completion_start_pos_Zero(len) == 0

\* seq.get_toks().len().saturating_sub(1)
completion_start_pos(len) == Max(0, len - 1)

\* get_completion_input with last_n_context_len = None; Tensor::cat of an
\* empty list of rows is an Err
get_completion_input(toks, no_kv_cache) ==
    IF no_kv_cache THEN get_prompt_input(toks)
    ELSE IF Len(toks) = 0 THEN Err
    ELSE LET B == Len(toks)
             start_pos(i) == completion_start_pos(Len(toks[i]))
         IN  Ok([input |-> [i \in 1..B |->
                              SubSeq(toks[i], start_pos(i) + 1, Len(toks[i]))],
                 positions |-> [i \in 1..B |-> start_pos(i)],
                 positions_kernel |-> [i \in 1..B |-> <<start_pos(i)>>],
                 context_lens |-> [i \in 1..B |-> <<0, 1>>],
                 position_ids |-> [i \in 1..B |-> Len(toks[i])]])

ModelInputs(ids, ids_full, offsets, offsets_full, kernel, kernel_full, lens, pos_ids) ==
    [input_ids |-> ids, input_ids_full |-> ids_full,
     seqlen_offsets |-> offsets, seqlen_offsets_full |-> offsets_full,
     seqlen_offsets_kernel |-> kernel,
     seqlen_offsets_kernel_full |-> kernel_full,
     context_lens |-> lens, position_ids |-> pos_ids]

\* mutant of calculate_inputs: the X-LoRA companions are never carried
calculate_inputs_DropsFull(toks, is_prompt, is_xlora, no_kv_cache) ==
    LET r == IF is_prompt THEN get_prompt_input(toks)
             ELSE get_completion_input(toks, no_kv_cache)
    IN  IF r.st # "ok" THEN r
        ELSE Ok(ModelInputs(r.v.input, None, r.v.positions, None,
                            r.v.positions_kernel, None,
                            r.v.context_lens, r.v.position_ids))

calculate_inputs(toks, is_prompt, is_xlora, no_kv_cache) ==
    IF is_xlora /\ ~is_prompt
    THEN LET full == get_prompt_input(toks)
         IN  IF full.st # "ok" THEN full
             ELSE LET last == get_completion_input(toks, no_kv_cache)
                  IN  IF last.st # "ok" THEN last
                      ELSE Ok(ModelInputs(last.v.input, Some(full.v.input),
                                          last.v.positions, Some(full.v.positions),
                                          last.v.positions_kernel,
                                          Some(full.v.positions_kernel),
                                          last.v.context_lens, full.v.position_ids))
    ELSE IF is_xlora /\ is_prompt
    THEN LET r == get_prompt_input(toks)
         IN  IF r.st # "ok" THEN r
             ELSE Ok(ModelInputs(r.v.input, Some(r.v.input),
                                 r.v.positions, Some(r.v.positions),
                                 r.v.positions_kernel, Some(r.v.positions_kernel),
                                 r.v.context_lens, r.v.position_ids))
    ELSE IF is_prompt
    THEN LET r == get_prompt_input(toks)
         IN  IF r.st # "ok" THEN r
             ELSE Ok(ModelInputs(r.v.input, None, r.v.positions, None,
                                 r.v.positions_kernel, None,
                                 r.v.context_lens, r.v.position_ids))
    ELSE LET r == get_completion_input(toks, no_kv_cache)
         IN  IF r.st # "ok" THEN r
             ELSE Ok(ModelInputs(r.v.input, None, r.v.positions, None,
                                 r.v.positions_kernel, None,
                                 r.v.context_lens, r.v.position_ids))

(***************************************************************************)
(* SpecMarshal: calculate_inputs applied to every batch of at most         *)
(* MaxBatch sequences of 1..MaxLen tokens over TokenIds, for every         *)
(* is_prompt, is_xlora and no_kv_cache.                                    *)
(***************************************************************************)
\* the token ids of the batches: the padding id and another one
TokenIds == {padding_tok, padding_tok + 1}

TokLists == UNION {[1..n -> TokenIds] : n \in 1..MaxLen}

Batches == UNION {[1..b -> TokLists] : b \in 0..MaxBatch}

MarshalInit ==
    /\ PipeIdle
    /\ attn = AttnIdle
    /\ UnitsIdle
    /\ marsh \in {[seqs |-> b, out |-> None] : b \in Batches}

Marshal ==
    /\ marsh.out = None
    /\ \E is_prompt \in BOOLEAN, is_xlora \in BOOLEAN, no_kv_cache \in BOOLEAN :
         marsh' = [seqs |-> marsh.seqs,
                   out |-> Some([is_prompt |-> is_prompt, is_xlora |-> is_xlora,
                                 no_kv_cache |-> no_kv_cache,
                                 res |-> calculate_inputs(marsh.seqs, is_prompt,
                                                          is_xlora, no_kv_cache)])]
    /\ UNCHANGED <<pipe, attn, units>>

MarshalNext == Marshal

SpecMarshal == MarshalInit /\ [][MarshalNext]_vars

\* the batch of marsh was marshalled as a prompt and the marshalling returned
PrefillMarshalled ==
    /\ IsSome(marsh.out)
    /\ Unwrap(marsh.out).is_prompt
    /\ Len(marsh.seqs) > 0

\* C10: prefill marshalling of a non-empty batch: row i of input_ids is the
\* i-th sequence's tokens followed by padding id 0 up to the batch maximum
\* q_len; every offset is 0; row i of the position tensor is 0..q_len-1.
C10_PrefillPadding ==
    PrefillMarshalled =>
        LET r == Unwrap(marsh.out).res
            B == Len(marsh.seqs)
            q_len == MaxOf({Len(marsh.seqs[i]) : i \in 1..B})
        IN  /\ r.st = "ok"
            /\ Len(r.v.input_ids) = B
            /\ Len(r.v.seqlen_offsets) = B
            /\ Len(r.v.seqlen_offsets_kernel) = B
            /\ \A i \in 1..B :
                 /\ Len(r.v.input_ids[i]) = q_len
                 /\ \A j \in 1..q_len :
                      r.v.input_ids[i][j] =
                        IF j <= Len(marsh.seqs[i]) THEN marsh.seqs[i][j] ELSE 0
                 /\ r.v.seqlen_offsets[i] = 0
                 /\ Len(r.v.seqlen_offsets_kernel[i]) = q_len
                 /\ \A j \in 1..q_len : r.v.seqlen_offsets_kernel[i][j] = j - 1

\* witness of C10: a batch of two sequences of different lengths, the shorter
\* one first and holding a non-zero token, was marshalled as a prompt
C10_Witness ==
    /\ PrefillMarshalled
    /\ Len(marsh.seqs) = 2
    /\ Len(marsh.seqs[1]) < Len(marsh.seqs[2])
    /\ marsh.seqs[1][Len(marsh.seqs[1])] # 0
    /\ Unwrap(marsh.out).res.st = "ok"
    /\ Len(Unwrap(marsh.out).res.v.input_ids[1]) = Len(marsh.seqs[2])

\* the batch maximum of the token counts: the row length of a padded input
BatchMax == MaxOf({Len(marsh.seqs[i]) : i \in 1..Len(marsh.seqs)})

\* C11 (as stated): in prefill mode context_lens is (q_len - 1, 1) for every
\* sequence, q_len the row length of the padded input (the batch maximum).
C11_ContextLensBatchMax ==
    PrefillMarshalled =>
        LET r == Unwrap(marsh.out).res
        IN  /\ r.st = "ok"
            /\ \A i \in 1..Len(marsh.seqs) : r.v.context_lens[i] = <<BatchMax - 1, 1>>

\* C11 (amended): in prefill mode context_lens of sequence i is
\* (len_i - 1, 1), len_i the sequence's own number of tokens: the position of
\* its last token in the right-padded row; it is (q_len - 1, 1) exactly for
\* the sequences of maximal length.
C11_ContextLensOwnLength ==
    PrefillMarshalled =>
        LET r == Unwrap(marsh.out).res
        IN  /\ r.st = "ok"
            /\ Len(r.v.context_lens) = Len(marsh.seqs)
            /\ \A i \in 1..Len(marsh.seqs) :
                 /\ r.v.context_lens[i] = <<Len(marsh.seqs[i]) - 1, 1>>
                 /\ r.v.input_ids[i][r.v.context_lens[i][1] + 1]
                        = marsh.seqs[i][Len(marsh.seqs[i])]
                 /\ (r.v.context_lens[i] = <<BatchMax - 1, 1>>)
                        <=> (Len(marsh.seqs[i]) = BatchMax)

\* witness of C11: a prefill batch whose second sequence is shorter than the
\* first one was marshalled
C11_Witness ==
    /\ PrefillMarshalled
    /\ Len(marsh.seqs) = 2
    /\ Len(marsh.seqs[2]) < Len(marsh.seqs[1])
    /\ Unwrap(marsh.out).res.st = "ok"

\* the batch of marsh was marshalled for a decode step with the KV cache enabled
DecodeMarshalled ==
    /\ IsSome(marsh.out)
    /\ ~Unwrap(marsh.out).is_prompt
    /\ ~Unwrap(marsh.out).no_kv_cache
    /\ Len(marsh.seqs) > 0

\* C12: decode marshalling with the KV cache enabled: row i of input_ids is
\* the last token of sequence i alone, offset i is len_i - 1, row i of the
\* position tensor is that offset alone, context_lens is (0, 1), in input order.
C12_DecodeMarshalling ==
    DecodeMarshalled =>
        LET r == Unwrap(marsh.out).res
            B == Len(marsh.seqs)
        IN  /\ r.st = "ok"
            /\ Len(r.v.input_ids) = B
            /\ Len(r.v.seqlen_offsets) = B
            /\ Len(r.v.seqlen_offsets_kernel) = B
            /\ Len(r.v.context_lens) = B
            /\ \A i \in 1..B :
                 /\ r.v.input_ids[i] = <<marsh.seqs[i][Len(marsh.seqs[i])]>>
                 /\ r.v.seqlen_offsets[i] = Len(marsh.seqs[i]) - 1
                 /\ r.v.seqlen_offsets_kernel[i] = <<Len(marsh.seqs[i]) - 1>>
                 /\ r.v.context_lens[i] = <<0, 1>>

\* witness of C12: a decode batch of two sequences of different lengths and
\* different last tokens was marshalled
C12_Witness ==
    /\ DecodeMarshalled
    /\ Len(marsh.seqs) = 2
    /\ Len(marsh.seqs[1]) > Len(marsh.seqs[2])
    /\ Len(marsh.seqs[2]) > 1
    /\ marsh.seqs[1][Len(marsh.seqs[1])] # marsh.seqs[2][Len(marsh.seqs[2])]

\* the rows of a batch right-padded to the batch maximum
PaddedRows ==
    [i \in 1..Len(marsh.seqs) |->
        [j \in 1..BatchMax |->
            IF j <= Len(marsh.seqs[i]) THEN marsh.seqs[i][j] ELSE padding_tok]]

\* C13: calculate_inputs carries the three full fields exactly when is_xlora
\* is set; for an X-LoRA decode step they are the prefill marshalling of the
\* whole token lists (padded rows, offsets 0, positions 0..q_len-1) and the
\* primary fields are the decode marshalling; for an X-LoRA prompt step they
\* equal the primary fields; otherwise they are absent.
C13_XLoraCompanions ==
    (IsSome(marsh.out) /\ Len(marsh.seqs) > 0) =>
        LET o == Unwrap(marsh.out)
            r == o.res
            B == Len(marsh.seqs)
        IN  /\ r.st = "ok"
            /\ IsSome(r.v.input_ids_full) <=> o.is_xlora
            /\ IsSome(r.v.seqlen_offsets_full) <=> o.is_xlora
            /\ IsSome(r.v.seqlen_offsets_kernel_full) <=> o.is_xlora
            /\ o.is_xlora =>
                 /\ Unwrap(r.v.input_ids_full) = PaddedRows
                 /\ Unwrap(r.v.seqlen_offsets_full) = [i \in 1..B |-> 0]
                 /\ Unwrap(r.v.seqlen_offsets_kernel_full)
                        = [i \in 1..B |-> [j \in 1..BatchMax |-> j - 1]]
            /\ (o.is_xlora /\ o.is_prompt) =>
                 /\ r.v.input_ids = Unwrap(r.v.input_ids_full)
                 /\ r.v.seqlen_offsets = Unwrap(r.v.seqlen_offsets_full)
                 /\ r.v.seqlen_offsets_kernel = Unwrap(r.v.seqlen_offsets_kernel_full)
            /\ (o.is_xlora /\ ~o.is_prompt /\ ~o.no_kv_cache) =>
                 /\ r.v.input_ids
                        = [i \in 1..B |-> <<marsh.seqs[i][Len(marsh.seqs[i])]>>]
                 /\ r.v.seqlen_offsets = [i \in 1..B |-> Len(marsh.seqs[i]) - 1]
                 /\ r.v.context_lens = [i \in 1..B |-> <<0, 1>>]

\* witness of C13: an X-LoRA decode step over two sequences of more than one
\* token was marshalled with the KV cache enabled
C13_Witness ==
    /\ IsSome(marsh.out)
    /\ Unwrap(marsh.out).is_xlora
    /\ ~Unwrap(marsh.out).is_prompt
    /\ ~Unwrap(marsh.out).no_kv_cache
    /\ Len(marsh.seqs) = 2
    /\ Len(marsh.seqs[1]) > 1
    /\ Len(marsh.seqs[2]) > 1
    /\ Unwrap(marsh.out).res.st = "ok"

(***************************************************************************)
(* The cache store and its manager (clone-in, clone-out, reset), the       *)
(* masker and the sampler are collaborators of Pipeline::step.             *)
(***************************************************************************)
CacheInstructions == {"In", "Out", "Reset", "Nonthing"}

\* Cache::new(num_hidden_layers, ..): every slot None
NoSlots == [l \in 1..NLayers |-> None]

\* the rows of a cached tensor that belong to one sequence
Row(x) == [x EXCEPT !.b = 1]

\* clone-in of one layer: the sequences' slots become the rows of the store's slot
CloneInLayer(batch, l) ==
    IF \A i \in 1..Len(batch) : batch[i].cache[l] = None THEN Ok(None)
    ELSE IF \E i \in 1..Len(batch) : batch[i].cache[l] = None THEN Panic
    ELSE IF \E i \in 1..Len(batch) : batch[i].cache[l] # batch[1].cache[l] THEN Panic
    ELSE Ok(Some([k |-> [Unwrap(batch[1].cache[l]).k EXCEPT !.b = Len(batch)],
                  v |-> [Unwrap(batch[1].cache[l]).v EXCEPT !.b = Len(batch)]]))

\* clone_in_cache: copies each sequence's owned slots into the store
clone_in_cache(batch) ==
    IF \E l \in 1..NLayers : CloneInLayer(batch, l).st # "ok" THEN Panic
    ELSE Ok([l \in 1..NLayers |-> CloneInLayer(batch, l).v])

\* clone_out_cache: copies the store's slots back into the first n sequences
clone_out_cache(all, n, store) ==
    [i \in 1..Len(all) |->
        IF i > n THEN all[i]
        ELSE [all[i] EXCEPT !.cache =
                [l \in 1..NLayers |->
                    IF store[l] = None THEN None
                    ELSE Some([k |-> Row(Unwrap(store[l]).k),
                               v |-> Row(Unwrap(store[l]).v)])]]]

\* CausalMasker.make_causal_mask(_with_sliding_window): None for a single
\* token on an empty cache, else a [q_len, q_len + past] mask
make_causal_mask(q_len, store) ==
    LET past == CachedLen(store[1])
    IN  IF q_len = 1 /\ past = 0 THEN None ELSE Some(Mask(q_len, q_len + past))

\* the rows extract_logits takes: for batch row i the positions
\* start .. start + len - 1; narrow fails beyond q_len
RECURSIVE LogitRows(_, _)
LogitRows(context_lens, i) ==
    IF i > Len(context_lens) THEN <<>>
    ELSE [j \in 1..context_lens[i][2] |-> <<i, context_lens[i][1] + j - 1>>]
         \o LogitRows(context_lens, i + 1)

\* mutant of extract_logits: a slice that leaves the row is clamped to the row
extract_logits_Clamps(B, q_len, context_lens) ==
    LET n == Min(B, Len(context_lens))
        clamp(cl) == <<Min(cl[1], q_len), Min(cl[2], q_len - Min(cl[1], q_len))>>
    IN  Ok(LogitRows([i \in 1..n |-> clamp(context_lens[i])], 1))

extract_logits(B, q_len, context_lens) ==
    LET n == Min(B, Len(context_lens))
        cl == SubSeq(context_lens, 1, n)
    IN  IF \E i \in 1..n : cl[i][1] + cl[i][2] > q_len THEN Err
        ELSE Ok(LogitRows(cl, 1))

\* the logits a model's forward returns from the [B, q_len, vocab] output
\* of the head: quantized Phi-3 takes position q_len - 1 of every row, the
\* other models call extract_logits
ModelLogits(c, B, q_len, context_lens) ==
    IF c.fam = "qphi3" THEN Ok([i \in 1..B |-> <<i, q_len - 1>>])
    ELSE extract_logits(B, q_len, context_lens)

(***************************************************************************)
(* Pipeline::step.  pc is the statement about to run: "pre_op",            *)
(* "forward" (the call of forward_inputs), "layers" (the decoder loop, at  *)
(* layer st.layer), "head" (norm, lm_head, logits), "post_op", "sample";   *)
(* "idle" when no step runs and "abort" after a panic.                     *)
(***************************************************************************)
\* mutant of AfterPhase: the logits are sampled before post_op runs
AfterPhase_SampleFirst(p) ==
    CASE p = "marshal" -> "pre_op"
      [] p = "pre_op" -> "forward"
      [] p = "forward" -> "sample"
      [] p = "sample" -> "post_op"
      [] p = "post_op" -> "idle"

\* the statement that follows each phase of the body of step
AfterPhase(p) ==
    CASE p = "marshal" -> "pre_op"
      [] p = "pre_op" -> "forward"
      [] p = "forward" -> "post_op"
      [] p = "post_op" -> "sample"
      [] p = "sample" -> "idle"

\* mutant of ForwardErrNext: the error of forward_inputs is dropped
ForwardErrNext_Continue == "post_op"

\* `self.forward_inputs(inputs)?`: an Err returns from step
ForwardErrNext == "idle"

\* mutant of WrittenSlot: the slot is written only when the step completes
WrittenSlot_Deferred(old, new) == old

\* `*kv_cache = Some((k.clone(), v.clone()))`: the block writes its slot
WrittenSlot(old, new) == new

\* mutant of LayerSlot: every layer is handed the first slot
LayerSlot_First(i) == 1

\* `&mut cache[i]` (kv_cache[block_idx]): the slot handed to layer i
LayerSlot(i) == i

PipeConfigs ==
    {Config("mistral", Some(PipeWindow), PipeMaxSeqLen, 2, 1, 2),
     Config("qphi3", Some(PipeMaxSeqLen), PipeMaxSeqLen, 2, 2, 2),
     Config("llama", None, PipeMaxSeqLen, 2, 1, 2),
     Config("phi2", None, PipeMaxSeqLen, 2, 1, 2),
     Config("qllama", None, PipeMaxSeqLen, 2, 1, 2)}

\* a new sequence with a prompt of n tokens
NewSeq(n) == [toks |-> [j \in 1..n |-> 1], cache |-> NoSlots]

Init ==
    /\ model \in {Some(c) : c \in PipeConfigs}
    /\ seqs \in {<<NewSeq(a)>> : a \in 1..MaxPrompt}
                \cup {<<NewSeq(a), NewSeq(MaxPrompt)>> : a \in 1..MaxPrompt}
    /\ cache = NoSlots
    /\ pc = "idle"
    /\ st = StIdle
    /\ ret = "none"
    /\ hist = HistNew
    /\ attn = AttnIdle
    /\ marsh = MarshIdle
    /\ UnitsIdle

\* the sequences handed to the current step
Batch == SubSeq(seqs, 1, st.n)

Log(e) == Append(st.log, e)

\* the history after a step with these arguments
NextHist(is_prompt, pre_op, post_op, n) ==
    [steps |-> hist.steps + 1,
     kind |-> IF /\ hist.kind = "new" /\ is_prompt /\ pre_op = "Reset"
                 /\ post_op = "Out" /\ n > 0
              THEN "regular"
              ELSE IF /\ hist.kind = "regular" /\ ret = "ok" /\ ~is_prompt
                      /\ pre_op = "In" /\ post_op = "Out" /\ n > 0
              THEN "regular"
              ELSE "irregular"]

\* step is called: calculate_inputs(..).unwrap()
StepBegin ==
    /\ pc = "idle"
    /\ hist.steps < MaxSteps
    /\ \E is_prompt \in BOOLEAN, pre_op \in CacheInstructions,
          post_op \in CacheInstructions, n \in {0, Len(seqs)} :
         LET r == calculate_inputs([i \in 1..n |-> seqs[i].toks], is_prompt, FALSE, FALSE)
         IN  /\ st' = [StIdle EXCEPT !.is_prompt = is_prompt, !.pre_op = pre_op,
                                     !.post_op = post_op, !.n = n,
                                     !.inputs = IF r.st = "ok" THEN Some(r.v) ELSE None,
                                     !.before = seqs, !.afterPre = cache,
                                     !.failed = IF r.st = "ok" THEN "none" ELSE "marshal",
                                     !.log = <<"marshal">>]
             /\ pc' = IF r.st = "ok" THEN AfterPhase("marshal") ELSE "abort"
             /\ hist' = NextHist(is_prompt, pre_op, post_op, n)
    /\ ret' = "none"
    /\ UNCHANGED <<model, seqs, cache, attn, marsh, units>>

\* match pre_op { In, Nonthing, Reset, _ => unreachable!() }
PreOp ==
    /\ pc = "pre_op"
    /\ LET r == CASE st.pre_op = "In" -> clone_in_cache(Batch)
                  [] st.pre_op = "Nonthing" -> Ok(cache)
                  [] st.pre_op = "Reset" -> Ok(NoSlots)
                  [] st.pre_op = "Out" -> Panic
       IN  /\ cache' = IF r.st = "ok" THEN r.v ELSE cache
           /\ pc' = IF r.st = "ok" THEN AfterPhase("pre_op") ELSE "abort"
           /\ st' = [st EXCEPT !.log = Log("pre_op"),
                               !.afterPre = IF r.st = "ok" THEN r.v ELSE cache]
    /\ UNCHANGED <<model, seqs, ret, hist, attn, marsh, units>>

\* the step inputs: batch size, tokens per row, rotary offsets
InB == Len(Unwrap(st.inputs).input_ids)

InQ == Len(Unwrap(st.inputs).input_ids[1])

InOffsets == Unwrap(st.inputs).seqlen_offsets

\* forward_inputs is called; the model's forward builds the mask from the store
ForwardBegin ==
    /\ pc = "forward"
    /\ st' = [st EXCEPT !.mask = make_causal_mask(InQ, cache), !.layer = 1,
                        !.log = Log("forward")]
    /\ pc' = "layers"
    /\ UNCHANGED <<model, seqs, cache, ret, hist, attn, marsh, units>>

\* forward_inputs returned Err at layer (NLayers + 1 for the head)
ForwardFails(layer) ==
    /\ st' = [st EXCEPT !.failed = "forward", !.layer = layer, !.log = Log("forward_ret")]
    /\ ret' = "err"
    /\ pc' = ForwardErrNext

\* one decoder layer of the loop of the model's forward; kernelOk is a device
\* or kernel failure of a tensor operation of the attention product
ForwardLayer ==
    /\ pc = "layers"
    /\ \E kernelOk \in BOOLEAN,
          ropeOk \in RotaryOutcomes(Unwrap(model), InOffsets, InQ) :
         LET r == AttnForward(Unwrap(model), cache[LayerSlot(st.layer)], InB, InQ,
                              st.mask, ropeOk, kernelOk)
         IN  /\ cache' = [cache EXCEPT ![LayerSlot(st.layer)] =
                            IF r.wrote THEN WrittenSlot(@, r.slot) ELSE @]
             /\ IF r.ok
                THEN /\ st' = [st EXCEPT !.layer = @ + 1,
                                         !.order = Append(@, st.layer),
                                         !.written = Append(@, r.slot)]
                     /\ pc' = IF st.layer = NLayers THEN "head" ELSE "layers"
                     /\ ret' = ret
                ELSE ForwardFails(st.layer)
    /\ UNCHANGED <<model, seqs, hist, attn, marsh, units>>

\* final norm, language-model head and the extraction of the logits
ForwardHead ==
    /\ pc = "head"
    /\ \E kernelOk \in BOOLEAN :
         LET r == ModelLogits(Unwrap(model), InB, InQ, Unwrap(st.inputs).context_lens)
         IN  IF kernelOk /\ r.st = "ok"
             THEN /\ st' = [st EXCEPT !.logits = Some(r.v), !.log = Log("forward_ret")]
                  /\ pc' = AfterPhase("forward")
                  /\ ret' = ret
             ELSE ForwardFails(NLayers + 1)
    /\ UNCHANGED <<model, seqs, cache, hist, attn, marsh, units>>

\* match post_op { Out, Nonthing, Reset, _ => unreachable!() }
PostOp ==
    /\ pc = "post_op"
    /\ st' = [st EXCEPT !.log = Log("post_op")]
    /\ CASE st.post_op = "Out" ->
              /\ seqs' = clone_out_cache(seqs, st.n, cache)
              /\ cache' = cache
              /\ pc' = AfterPhase("post_op")
         [] st.post_op = "Nonthing" ->
              /\ UNCHANGED <<seqs, cache>>
              /\ pc' = AfterPhase("post_op")
         [] st.post_op = "Reset" ->
              /\ seqs' = seqs
              /\ cache' = NoSlots
              /\ pc' = AfterPhase("post_op")
         [] st.post_op = "In" ->
              /\ UNCHANGED <<seqs, cache>>
              /\ pc' = "abort"
    /\ UNCHANGED <<model, ret, hist, attn, marsh, units>>

\* self.sample(..).await?: the sampler appends one token to every sequence of
\* the batch, or fails
Sample ==
    /\ pc = "sample"
    /\ \E ok \in BOOLEAN :
         /\ seqs' = IF ok
                    THEN [i \in 1..Len(seqs) |->
                            IF i <= st.n THEN [seqs[i] EXCEPT !.toks = Append(@, 1)]
                            ELSE seqs[i]]
                    ELSE seqs
         /\ ret' = IF ok /\ ret # "err" THEN "ok" ELSE "err"
         /\ st' = [st EXCEPT !.log = Log("sample"),
                             !.failed = IF ok THEN @ ELSE "sample"]
    /\ pc' = AfterPhase("sample")
    /\ UNCHANGED <<model, cache, hist, attn, marsh, units>>

Next ==
    \/ StepBegin
    \/ PreOp
    \/ ForwardBegin
    \/ ForwardLayer
    \/ ForwardHead
    \/ PostOp
    \/ Sample

Spec == Init /\ [][Next]_vars

(***************************************************************************)
(* Properties of Pipeline::step.                                           *)
(***************************************************************************)
\* the events of a complete step, in the order of the body of step
StepOrder == <<"marshal", "pre_op", "forward", "forward_ret", "post_op", "sample">>

\* C1: the phases of step run in the order marshal, pre_op, forward_inputs,
\* post_op, sample, each at most once; no cache operation falls between the
\* call and the return of forward_inputs, and sample never precedes post_op.
C1_PhaseOrder ==
    /\ Len(st.log) <= Len(StepOrder)
    /\ \A i \in 1..Len(st.log) : st.log[i] = StepOrder[i]

\* witness of C1: a complete decode step with clone-in and clone-out returned Ok
C1_Witness ==
    /\ pc = "idle"
    /\ ret = "ok"
    /\ st.log = StepOrder
    /\ ~st.is_prompt
    /\ st.pre_op = "In"
    /\ st.post_op = "Out"

\* forward_inputs returned an error in the current step
ForwardFailed == ret = "err" /\ st.failed = "forward"

\* C2: when forward_inputs returns an error step returns it, neither post_op
\* nor sample runs, and the sequences' tokens and own cache copies are those
\* of before the step, for every pre_op and post_op.
C2_ForwardErrorReturns ==
    ForwardFailed =>
        /\ pc = "idle"
        /\ seqs = st.before
        /\ \A i \in 1..Len(st.log) : st.log[i] \notin {"post_op", "sample"}

\* witness of C2: the forward of a decode step over sequences that own cache
\* copies failed, with a post_op that would have cloned out
C2_Witness ==
    /\ ForwardFailed
    /\ st.post_op = "Out"
    /\ \E i \in 1..Len(seqs) : seqs[i].cache # NoSlots

\* C3 (as stated): when the forward fails at a layer after clone-in ran, every
\* slot of the store holds the value it had immediately after pre_op.
C3_StoreUntouched ==
    (ForwardFailed /\ st.pre_op = "In") => cache = st.afterPre

\* C3 (amended): when the forward fails at layer i after clone-in ran, the
\* store is not rolled back: the slots of the layers after i hold the value
\* they had after pre_op, the slots of the layers before i hold what the
\* failed pass wrote (non-empty and ending with the new entries), and the
\* sequences' own copies are unchanged.
C3_StorePartlyWritten ==
    (ForwardFailed /\ st.pre_op = "In") =>
        /\ \A l \in 1..NLayers :
             /\ l > st.layer => cache[l] = st.afterPre[l]
             /\ l < st.layer =>
                  /\ IsSome(cache[l])
                  /\ cache[l] # st.afterPre[l]
                  /\ LET t == Unwrap(cache[l]).k.t
                     IN  t[Len(t)] = NewIds(st.afterPre[l], InQ)[InQ]
        /\ seqs = st.before

\* witness of C3: the forward failed at the second layer after clone-in, and
\* the store differs from its value after pre_op
C3_Witness ==
    /\ ForwardFailed
    /\ st.pre_op = "In"
    /\ st.layer = 2
    /\ cache # st.afterPre
    /\ IsSome(st.afterPre[1])

\* C4 (as stated): every failure inside a step reaches the caller as an error
\* result of step and never aborts the process, also for pre_op = clone-out,
\* post_op = clone-in and an empty list of sequences.
C4_NoAbort == pc # "abort"

\* C6 (as stated): for a sliding-window model, after the forward and post_op
\* of any step of a history of one prefill followed by decode steps, every
\* layer's slot of every sequence holds min(number of tokens of the sequence,
\* W) entries.
C6_SlotLength ==
    (/\ Unwrap(model).fam \in SlidingFamilies
     /\ hist.kind = "regular"
     /\ pc = "sample")
        => \A i \in 1..st.n : \A l \in 1..NLayers :
             CachedLen(seqs[i].cache[l])
                = Min(Len(seqs[i].toks), Unwrap(Unwrap(model).sw))

\* the forward pass of the current step is inside its layer loop or has
\* returned without an error
InForward == pc \in {"layers", "head"}

ForwardSucceeded ==
    /\ Len(st.log) > 0
    /\ st.log[Len(st.log)] = "forward_ret"
    /\ st.failed = "none"

\* C20: within one forward pass the layers run in ascending order, one after
\* the other; when layer i has run, slot i holds what layer i wrote and the
\* slots of the layers that have not run are as the pass found them (layer i
\* touches slot i only); on successful return all layers 1..NLayers have run
\* and every slot is non-empty and holds the value this pass wrote.
C20_LayersInOrder ==
    /\ InForward =>
         /\ st.order = [i \in 1..(st.layer - 1) |-> i]
         /\ \A l \in 1..NLayers :
              IF l < st.layer THEN cache[l] = st.written[l]
              ELSE cache[l] = st.afterPre[l]
    /\ ForwardSucceeded =>
         /\ st.order = [i \in 1..NLayers |-> i]
         /\ \A l \in 1..NLayers : cache[l] # None /\ cache[l] = st.written[l]

\* C27 (as stated): the forward of every model returns, for a prefill batch
\* (sequences of different lengths included), one logit per sequence, taken
\* at the sequence's own last real token and never at a padding position.
C27_LogitsAtOwnLastToken ==
    (ForwardSucceeded /\ st.is_prompt /\ IsSome(st.logits))
        => /\ Len(Unwrap(st.logits)) = st.n
           /\ \A i \in 1..st.n :
                Unwrap(st.logits)[i] = <<i, Len(st.before[i].toks) - 1>>

\* C28 (as stated, on the families whose cache update is a plain
\* concatenation): in a decode step that follows the prefill, for every
\* sequence of the batch, the rotary offset submitted (len - 1) is the number
\* of entries cached for the sequence before the step, and after the step
\* (forward and clone-out done) the cached length is len.
C28_OffsetIsCachedLength ==
    (/\ Unwrap(model).fam \in {"phi2", "qllama"}
     /\ hist.kind = "regular"
     /\ ~st.is_prompt
     /\ IsSome(st.inputs))
        => /\ \A i \in 1..st.n : \A l \in 1..NLayers :
                /\ InOffsets[i] = Len(st.before[i].toks) - 1
                /\ InOffsets[i] = CachedLen(st.before[i].cache[l])
           /\ pc = "sample" =>
                \A i \in 1..st.n : \A l \in 1..NLayers :
                    CachedLen(seqs[i].cache[l]) = Len(seqs[i].toks)

\* witness of C20: a decode forward on a store that held cached entries has
\* returned, and every layer wrote its slot
C20_Witness ==
    /\ ForwardSucceeded
    /\ st.order = [i \in 1..NLayers |-> i]
    /\ \A l \in 1..NLayers : IsSome(st.afterPre[l]) /\ cache[l] # st.afterPre[l]

(***************************************************************************)
(* SpecLogits: extract_logits applied to logits of shape [B, q, V] and to  *)
(* every context_lens of B entries (start, len) with start in 0..MaxQ and  *)
(* len in 1..2.  A row of the result is named by the pair <<b, position>>  *)
(* of the logits it is taken from (b from 1, position from 0).             *)
(***************************************************************************)
LogitsInit ==
    /\ PipeIdle
    /\ attn = AttnIdle
    /\ marsh = MarshIdle
    /\ ts = None
    /\ nm = None
    /\ pd = None
    /\ moe = None
    /\ \E B \in 1..MaxBatch, q \in 1..MaxQ :
         \E cl \in [1..B -> (0..MaxQ) \X (1..2)] :
            lg = Some([B |-> B, q |-> q, context_lens |-> cl, out |-> None])
    /\ qz = None
    /\ xp = None
    /\ xl = None

\* one call of extract_logits (both callers: the models' forward)
Extract ==
    /\ IsSome(lg)
    /\ Unwrap(lg).out = None
    /\ lg' = Some([Unwrap(lg) EXCEPT !.out =
                     Some(extract_logits(Unwrap(lg).B, Unwrap(lg).q,
                                         Unwrap(lg).context_lens))])
    /\ UNCHANGED <<pipe, attn, marsh, qz, xp, xl, moe, pd, nm, ts>>

LogitsNext == Extract

SpecLogits == LogitsInit /\ [][LogitsNext]_vars

\* extract_logits was called
Extracted == IsSome(lg) /\ IsSome(Unwrap(lg).out)

LgOut == Unwrap(Unwrap(lg).out)

\* the number of rows the sequences before b contribute
RECURSIVE RowsBefore(_)
RowsBefore(b) == IF b <= 1 THEN 0
                 ELSE RowsBefore(b - 1) + Unwrap(lg).context_lens[b - 1][2]

get_tensors ==
    <<[name |-> "lm_head", layer |-> None]>>
    \o [i \in 1..(2 * NQLayers) |->
          [name |-> IF i % 2 = 1 THEN "attn" ELSE "ffn",
           layer |-> Some((i + 1) \div 2)]]

QDTypes == {"Q4K", "Q8_0"}

\* mutant of NeedsQuantize: every projection is converted
NeedsQuantize_Always(t) == TRUE

\* `if let QMatMul::Tensor(t) = tensor`
NeedsQuantize(t) == t.kind = "Tensor"

\* mutant of TargetDevice: everything goes to the device argument
TargetDevice_Default(mapped, layer, device) == device

\* mapper.device_for(*layer, false).unwrap_or(&device) for a layer, &device
\* for the LM head
TargetDevice(mapped, layer, device) ==
    IF IsSome(layer) /\ mapped THEN <<"layer", Unwrap(layer)>> ELSE device

\* the device argument of quantize, and where the loader left the weights
QDevice == <<"device", 0>>
QLoaded == <<"load", 0>>

QuantInit ==
    /\ PipeIdle
    /\ attn = AttnIdle
    /\ marsh = MarshIdle
    /\ ts = None
    /\ nm = None
    /\ pd = None
    /\ moe = None
    /\ lg = None
    /\ xp = None
    /\ xl = None
    /\ \E mapped \in BOOLEAN :
         qz = Some([tensors |-> [i \in 1..Len(get_tensors) |->
                                   [kind |-> "Tensor", dtype |-> "F32",
                                    dev |-> QLoaded, conv |-> 0]],
                    mapped |-> mapped,
                    pc |-> "idle", calls |-> 0, ret |-> "none",
                    dtype |-> "none", item |-> [i \in 1..Len(get_tensors) |-> "done"],
                    n_quantized |-> 0,
                    snap |-> <<>>])

Qz == Unwrap(qz)

\* quantize is called: get_tensors, the counter, the devices; the items are
\* handed to the worker pool
QuantizeCall ==
    /\ IsSome(qz)
    /\ Qz.pc = "idle"
    /\ Qz.calls < MaxQuantCalls
    /\ \E dtype \in QDTypes :
         qz' = Some([Qz EXCEPT !.pc = "running", !.calls = @ + 1, !.ret = "none",
                               !.dtype = dtype,
                               !.item = [i \in 1..Len(get_tensors) |-> "todo"],
                               !.n_quantized = 0,
                               !.snap = Qz.tensors])
    /\ UNCHANGED <<pipe, attn, marsh, lg, xp, xl, moe, pd, nm, ts>>

\* a worker starts item i: the `if let` test and the fetch_add
QuantizeTest(i) ==
    /\ IsSome(qz)
    /\ Qz.pc = "running"
    /\ Qz.item[i] = "todo"
    /\ qz' = Some(IF NeedsQuantize(Qz.tensors[i])
                  THEN [Qz EXCEPT !.item[i] = "counted", !.n_quantized = @ + 1]
                  ELSE [Qz EXCEPT !.item[i] = "done"])
    /\ UNCHANGED <<pipe, attn, marsh, lg, xp, xl, moe, pd, nm, ts>>

\* the worker converts item i: to_device(..).unwrap(), QTensor::quantize(..)
\* .unwrap() and the assignment; a failure of either panics
QuantizeConvert(i) ==
    /\ IsSome(qz)
    /\ Qz.pc = "running"
    /\ Qz.item[i] = "counted"
    /\ \E ok \in BOOLEAN :
         qz' = Some(IF ok
                    THEN [Qz EXCEPT !.item[i] = "done",
                                    !.tensors[i] =
                                       [kind |-> "QTensor", dtype |-> Qz.dtype,
                                        dev |-> TargetDevice(Qz.mapped,
                                                             get_tensors[i].layer,
                                                             QDevice),
                                        conv |-> Qz.tensors[i].conv + 1]]
                    ELSE [Qz EXCEPT !.pc = "panic"])
    /\ UNCHANGED <<pipe, attn, marsh, lg, xp, xl, moe, pd, nm, ts>>

\* the for_each has joined: the count is reported and Ok(()) returned
QuantizeReturn ==
    /\ IsSome(qz)
    /\ Qz.pc = "running"
    /\ \A i \in 1..Len(get_tensors) : Qz.item[i] = "done"
    /\ qz' = Some([Qz EXCEPT !.pc = "idle", !.ret = "ok"])
    /\ UNCHANGED <<pipe, attn, marsh, lg, xp, xl, moe, pd, nm, ts>>

QuantNext ==
    \/ QuantizeCall
    \/ \E i \in 1..Len(get_tensors) : QuantizeTest(i)
    \/ \E i \in 1..Len(get_tensors) : QuantizeConvert(i)
    \/ QuantizeReturn

SpecQuant == QuantInit /\ [][QuantNext]_vars

\* a call of quantize has returned
QuantReturned == IsSome(qz) /\ Qz.pc = "idle" /\ Qz.calls > 0

\* C15: a second (or later) quantize call is a no-op returning Ok: it changes
\* no projection at any moment and reports no error, so the model after two
\* calls is the model after one.
C15_QuantizeIdempotent ==
    (IsSome(qz) /\ Qz.calls >= 2) =>
        /\ Qz.tensors = Qz.snap
        /\ Qz.pc # "panic"
        /\ Qz.n_quantized = 0
        /\ Qz.pc = "idle" => Qz.ret = "ok"

\* witness of C15: a second call with another dtype returned on a model whose
\* projections the first call converted
C15_Witness ==
    /\ QuantReturned
    /\ Qz.calls = 2
    /\ \A i \in 1..Len(get_tensors) : Qz.tensors[i].conv = 1
    /\ \E i \in 1..Len(get_tensors) : Qz.tensors[i].dtype # Qz.dtype

\* C16: when a quantize call returns, whatever the interleaving of the
\* workers, every exposed projection is quantized; each projection that was
\* full precision was converted exactly once, into the call's dtype and onto
\* the device of its layer (the device argument for the LM head); a projection
\* that was quantized is unchanged; the count is the number of projections
\* that were full precision.
C16_QuantizeAll ==
    QuantReturned =>
        /\ \A i \in 1..Len(get_tensors) :
             /\ Qz.tensors[i].kind = "QTensor"
             /\ Qz.snap[i].kind = "Tensor" =>
                  /\ Qz.tensors[i].conv = Qz.snap[i].conv + 1
                  /\ Qz.tensors[i].dtype = Qz.dtype
                  /\ Qz.tensors[i].dev =
                       IF get_tensors[i].layer = None THEN QDevice
                       ELSE IF Qz.mapped THEN <<"layer", Unwrap(get_tensors[i].layer)>>
                       ELSE QDevice
             /\ Qz.snap[i].kind = "QTensor" => Qz.tensors[i] = Qz.snap[i]
        /\ Qz.n_quantized
             = Cardinality({i \in 1..Len(get_tensors) : Qz.snap[i].kind = "Tensor"})

\* witness of C16: the first call returned on a device-mapped model and
\* converted the LM head and the projections of a layer
C16_Witness ==
    /\ QuantReturned
    /\ Qz.calls = 1
    /\ Qz.mapped
    /\ Qz.n_quantized = Len(get_tensors)
    /\ Qz.tensors[1].dev = QDevice
    /\ Qz.tensors[2].dev = <<"layer", 1>>

(***************************************************************************)
(* SpecXLoraPaths: get_xlora_paths with an X-LoRA model id.  The inputs    *)
(* are the base model id, the ordering (absent, or its base_model_id and   *)
(* its optional adapter list), what the adapter repository holds (a        *)
(* classifier file, a config that deserializes and its base_model_id, the  *)
(* adapters that have files) and whether the downloads and reads succeed.  *)
(***************************************************************************)
ModelIds == {"base-a", "base-b"}
AdapterNames == {"adapter_1", "adapter_2"}

\* the ordering argument: None, or base_model_id and adapters (Option)
Orderings ==
    {None} \cup
    {Some([base_model_id |-> id, adapters |-> ad]) :
        id \in ModelIds, ad \in {None} \cup {Some(a) : a \in SUBSET AdapterNames}}

\* mutant of ids_mismatch: the config is not compared with the base model
ids_mismatch_OrderOnly(xlora_order, config_id, base_model_id) == IsSome(xlora_order) /\ Unwrap(xlora_order).base_model_id # config_id

\* the condition of the bail: the ordering (when present) against the config,
\* the config against the base model
ids_mismatch(xlora_order, config_id, base_model_id) ==
    \/ IsSome(xlora_order) /\ Unwrap(xlora_order).base_model_id # config_id
    \/ config_id # base_model_id

\* get_xlora_paths, in the order of its statements
get_xlora_paths(a) ==
    IF ~a.io THEN Err                                   \* `?` of a download or read
    ELSE IF ~a.classifier THEN Panic                    \* xlora_classifier[0]
    ELSE IF ~a.config_ok THEN Panic                     \* no config deserializes
    ELSE IF a.xlora_order = None THEN Panic             \* xlora_order.as_ref().unwrap()
    ELSE IF Unwrap(a.xlora_order).adapters = None THEN Panic
    ELSE LET adapters == Unwrap(Unwrap(a.xlora_order).adapters)
             adapter_files == adapters \cap a.repo
         IN IF adapter_files = {} THEN [st |-> "err", v |-> "Adapter files are empty"]
            ELSE IF \E name \in adapters : name \notin adapter_files THEN Panic
            ELSE IF ids_mismatch(a.xlora_order, a.config_id, a.base_model_id)
            THEN [st |-> "err", v |-> "do not match"]
            ELSE Ok([xlora_order |-> a.xlora_order, config_id |-> a.config_id,
                     adapters |-> adapters])

XLoraPathsInit ==
    /\ PipeIdle
    /\ attn = AttnIdle
    /\ marsh = MarshIdle
    /\ ts = None
    /\ nm = None
    /\ pd = None
    /\ moe = None
    /\ lg = None
    /\ qz = None
    /\ xl = None
    /\ \E order \in Orderings, config_id \in ModelIds, base \in ModelIds,
          repo \in SUBSET AdapterNames, classifier \in BOOLEAN,
          config_ok \in BOOLEAN, io \in BOOLEAN :
         xp = Some([args |-> [xlora_order |-> order, config_id |-> config_id,
                              base_model_id |-> base, repo |-> repo,
                              classifier |-> classifier, config_ok |-> config_ok,
                              io |-> io],
                    out |-> None])

GetXLoraPaths ==
    /\ IsSome(xp)
    /\ Unwrap(xp).out = None
    /\ xp' = Some([Unwrap(xp) EXCEPT !.out = Some(get_xlora_paths(Unwrap(xp).args))])
    /\ UNCHANGED <<pipe, attn, marsh, lg, qz, xl, moe, pd, nm, ts>>

XLoraPathsNext == GetXLoraPaths

SpecXLoraPaths == XLoraPathsInit /\ [][XLoraPathsNext]_vars

\* get_xlora_paths has finished on an ordering
XpLoaded == IsSome(xp) /\ IsSome(Unwrap(xp).out) /\ IsSome(Unwrap(xp).args.xlora_order)
XpArgs == Unwrap(xp).args
XpOut == Unwrap(Unwrap(xp).out)

\* the three ids are equal
IdsAllEqual ==
    /\ Unwrap(XpArgs.xlora_order).base_model_id = XpArgs.config_id
    /\ XpArgs.config_id = XpArgs.base_model_id

\* everything get_xlora_paths does before the comparison of the ids succeeds
XpOtherStepsPass ==
    /\ XpArgs.io
    /\ XpArgs.classifier
    /\ XpArgs.config_ok
    /\ IsSome(Unwrap(XpArgs.xlora_order).adapters)
    /\ Unwrap(Unwrap(XpArgs.xlora_order).adapters) # {}
    /\ Unwrap(Unwrap(XpArgs.xlora_order).adapters) \subseteq XpArgs.repo

\* C17 as stated: with an ordering, the load is rejected with an error if and
\* only if the three ids are not all equal, and accepted when they are equal
\* (read in its favour: the downloads and reads succeed and the repository
\* has a classifier and a config that deserializes).
C17_RejectedIffMismatch ==
    (XpLoaded /\ XpArgs.io /\ XpArgs.classifier /\ XpArgs.config_ok) =>
        /\ (XpOut.st = "err") <=> ~IdsAllEqual
        /\ IdsAllEqual => XpOut.st = "ok"

\* C17 amended: with an ordering, a load whose three ids are not all equal
\* never succeeds; when every other step of the load succeeds, the load is
\* rejected with the mismatch error if and only if the ids are not all equal,
\* and is accepted when they are equal.
C17_MismatchNeverLoads ==
    XpLoaded =>
        /\ ~IdsAllEqual => XpOut.st # "ok"
        /\ XpOtherStepsPass =>
             /\ (XpOut = [st |-> "err", v |-> "do not match"]) <=> ~IdsAllEqual
             /\ (XpOut.st = "ok") <=> IdsAllEqual
        /\ (XpOut = [st |-> "err", v |-> "do not match"]) => ~IdsAllEqual

\* witness of C17: a load rejected because only the base model id differs
C17_Witness ==
    /\ XpLoaded
    /\ XpOtherStepsPass
    /\ Unwrap(XpArgs.xlora_order).base_model_id = XpArgs.config_id
    /\ XpArgs.config_id # XpArgs.base_model_id
    /\ XpOut = [st |-> "err", v |-> "do not match"]

(***************************************************************************)
(* SpecXLora: the forward of the X-LoRA models (XLoraLlama, the X-LoRA     *)
(* Gemma XLoraModel).  The cache store has two lists, each behind its own  *)
(* mutex: lock() guards the primary list, xlora_lock() the secondary one.  *)
(* A slot is None or Some([len, by]): the cached length and the pass that  *)
(* wrote it.  forward runs the scaling pass and the main pass when the     *)
(* model has a classifier, else one single pass; each pass is one call of  *)
(* inner_forward.  held is the set of mutexes the thread holds.            *)
(***************************************************************************)
XLoraFamilies == {"xlora_llama", "xlora_gemma"}

XPasses == {"scaling", "main", "single"}

\* get_scalings runs the classifier's pass through forward(.., is_full_pass,
\* ..): it writes the secondary list, which is what is_full_pass selects
ScalingIsFullPass == TRUE

\* the is_full_pass argument of the inner_forward of a pass
is_full_pass(pass) ==
    IF pass = "main" THEN TRUE
    ELSE IF pass = "single" THEN FALSE
    ELSE ScalingIsFullPass

\* the list a pass works on: xlora_lock() when is_full_pass, else lock()
PassList(pass) == IF is_full_pass(pass) THEN "xlora" ELSE "primary"

\* XLoraLlama builds the mask, then takes the lock; the X-LoRA Gemma takes the
\* lock, then builds the mask
MaskFirst(fam) == fam = "xlora_llama"

XSlots(len, by) == [l \in 1..NLayers |-> IF len = 0 THEN None ELSE Some([len |-> len, by |-> by])]

XLen(slot) == IF slot = None THEN 0 ELSE Unwrap(slot).len

XPassIdle == [pass |-> "none", mask_done |-> FALSE, lock_done |-> FALSE, layer |-> 0]

XLoraInit ==
    /\ PipeIdle
    /\ attn = AttnIdle
    /\ marsh = MarshIdle
    /\ ts = None
    /\ nm = None
    /\ pd = None
    /\ moe = None
    /\ lg = None
    /\ qz = None
    /\ xp = None
    /\ \E fam \in XLoraFamilies, classifier \in BOOLEAN, no_kv_cache \in BOOLEAN,
          past \in 0..(MaxLen - 1), q \in 1..MaxQ :
         /\ no_kv_cache => past = 0
         /\ past > 0 => q = 1
         /\ xl = Some([fam |-> fam, classifier |-> classifier,
                       no_kv_cache |-> no_kv_cache, q |-> q,
                       primary |-> XSlots(past, "before"),
                       xlora |-> XSlots(past, "before"),
                       before |-> XSlots(past, "before"),
                       held |-> {}, pc |-> "idle", cur |-> XPassIdle,
                       wrote |-> [p \in XPasses |-> {}],
                       kvread |-> [p \in XPasses |-> {}],
                       mask_held |-> [p \in XPasses |-> {}],
                       passes |-> <<>>,
                       primary_at_main |-> XSlots(past, "before")])

Xl == Unwrap(xl)

\* forward is called: the scaling pass when there is a classifier, else the
\* single pass
XForward ==
    /\ IsSome(xl)
    /\ Xl.pc = "idle"
    /\ Xl.passes = <<>>
    /\ xl' = Some([Xl EXCEPT !.pc = "pass",
                             !.cur = [XPassIdle EXCEPT !.pass = IF Xl.classifier THEN "scaling"
                                                               ELSE "single"]])
    /\ UNCHANGED <<pipe, attn, marsh, lg, qz, xp, moe, pd, nm, ts>>

\* the mutexes CausalMasker.make_causal_mask takes to read the cached length
\* of the store it is given
MaskerLocks == {"primary"}

\* make_causal_mask(x, &self.cache): a thread that already holds the mutex
\* the masker asks for cannot get it (the second lock blocks or panics, the
\* pass does not go on)
XMask ==
    /\ IsSome(xl)
    /\ Xl.pc = "pass"
    /\ ~Xl.cur.mask_done
    /\ MaskFirst(Xl.fam) \/ Xl.cur.lock_done
    /\ xl' = Some(IF MaskerLocks \cap Xl.held # {}
                  THEN [Xl EXCEPT !.pc = "blocked",
                                  !.mask_held[Xl.cur.pass] = Xl.held]
                  ELSE [Xl EXCEPT !.cur.mask_done = TRUE,
                                  !.mask_held[Xl.cur.pass] = Xl.held])
    /\ UNCHANGED <<pipe, attn, marsh, lg, qz, xp, moe, pd, nm, ts>>

\* the cache guard of the pass: xlora_lock() (after emptying the secondary
\* list when no_kv_cache) for a full pass, lock() otherwise
XLock ==
    /\ IsSome(xl)
    /\ Xl.pc = "pass"
    /\ ~Xl.cur.lock_done
    /\ ~MaskFirst(Xl.fam) \/ Xl.cur.mask_done
    /\ LET list == PassList(Xl.cur.pass)
           clear == is_full_pass(Xl.cur.pass) /\ Xl.no_kv_cache
       IN  xl' = Some([Xl EXCEPT !.cur.lock_done = TRUE,
                                 !.held = @ \cup {list},
                                 !.xlora = IF clear THEN XSlots(0, "none") ELSE @,
                                 !.wrote[Xl.cur.pass] = IF clear THEN @ \cup {"xlora"} ELSE @,
                                 !.primary_at_main = IF Xl.cur.pass = "main"
                                                     THEN Xl.primary ELSE @])
    /\ UNCHANGED <<pipe, attn, marsh, lg, qz, xp, moe, pd, nm, ts>>

\* one block of the pass: the attention reads the slot of the guarded list
\* and writes it back with the new keys and values appended
XLayer ==
    /\ IsSome(xl)
    /\ Xl.pc = "pass"
    /\ Xl.cur.mask_done
    /\ Xl.cur.lock_done
    /\ Xl.cur.layer < NLayers
    /\ LET l == Xl.cur.layer + 1
           list == PassList(Xl.cur.pass)
           slot == IF list = "xlora" THEN Xl.xlora[l] ELSE Xl.primary[l]
           new == Some([len |-> XLen(slot) + Xl.q, by |-> Xl.cur.pass])
       IN  xl' = Some([Xl EXCEPT !.cur.layer = l,
                                 !.xlora[l] = IF list = "xlora" THEN new ELSE @,
                                 !.primary[l] = IF list = "primary" THEN new ELSE @,
                                 !.wrote[Xl.cur.pass] = @ \cup {list},
                                 !.kvread[Xl.cur.pass] = @ \cup {list}])
    /\ UNCHANGED <<pipe, attn, marsh, lg, qz, xp, moe, pd, nm, ts>>

\* inner_forward returns and drops its guard; forward goes on with the main
\* pass after the scaling pass, and returns after the main or single pass
XPassEnd ==
    /\ IsSome(xl)
    /\ Xl.pc = "pass"
    /\ Xl.cur.layer = NLayers
    /\ xl' = Some([Xl EXCEPT !.held = @ \ {PassList(Xl.cur.pass)},
                             !.passes = Append(@, Xl.cur.pass),
                             !.pc = IF Xl.cur.pass = "scaling" THEN "pass" ELSE "idle",
                             !.cur = IF Xl.cur.pass = "scaling"
                                     THEN [XPassIdle EXCEPT !.pass = "main"]
                                     ELSE XPassIdle])
    /\ UNCHANGED <<pipe, attn, marsh, lg, qz, xp, moe, pd, nm, ts>>

XLoraNext ==
    \/ XForward
    \/ XMask
    \/ XLock
    \/ XLayer
    \/ XPassEnd

SpecXLora == XLoraInit /\ [][XLoraNext]_vars

\* a two-pass forward with the KV cache enabled has returned
XTwoPassDone ==
    /\ IsSome(xl)
    /\ Xl.classifier
    /\ ~Xl.no_kv_cache
    /\ Xl.passes = <<"scaling", "main">>

\* C18: in the two-pass forward (classifier, KV cache enabled) the scaling
\* pass writes only the secondary list, the main pass reads and writes only
\* the primary list, and the primary list the main pass finds is the one that
\* was there before the scaling pass.
C18_PassesUseSeparateLists ==
    XTwoPassDone =>
        /\ Xl.wrote["scaling"] \subseteq {"xlora"}
        /\ Xl.wrote["main"] \subseteq {"primary"}
        /\ Xl.kvread["main"] \subseteq {"primary"}
        /\ Xl.primary_at_main = Xl.before

\* C19: in every pass the mask is built while the thread holds no cache
\* mutex (the mask comes before the lock), so no pass asks for a mutex it
\* holds: no pass blocks on itself.
C19_MaskBeforeLock ==
    IsSome(xl) =>
        /\ Xl.pc # "blocked"
        /\ \A p \in XPasses : Xl.mask_held[p] = {}

(***************************************************************************)
(* SpecMoE: MlpOrMoe::forward of the quantized Llama, MoE arm.  A routing  *)
(* weight (a softmax output) is a small natural number, the weight in      *)
(* units of the smallest one; a renormalized weight w / sum is the         *)
(* fraction <<w, sum>>.  top_x[e] is the list of the rows of expert e,     *)
(* selected_rws[e] the list of their weights, taken[r] the experts of row  *)
(* r in the order they were taken, ys[r] the set of the contributions      *)
(* [expert, w] added to the accumulator row r.                             *)
(***************************************************************************)
RoutingWeightValues == {0, 1, 2, 3}

\* a row of softmax outputs: its largest weight is not zero
RoutingRows == {rw \in [1..NExperts -> RoutingWeightValues] : \E e \in 1..NExperts : rw[e] > 0}

\* the second row of a two-row input
RoutingRows2 == [1..NExperts -> {1, 2}]

\* mutant of Ahead: among equal weights the higher index comes first
Ahead_HighIndexFirst(rw, j, i) == rw[j] > rw[i] \/ (rw[j] = rw[i] /\ j > i)

\* dst.sort_by(|&i, &j| rw[j].total_cmp(&rw[i])) on 0..E: j comes before i when
\* its weight is larger; the sort is stable, so equal weights keep index order
Ahead(rw, j, i) == rw[j] > rw[i] \/ (rw[j] = rw[i] /\ j < i)

\* dst after the sort
SortedExperts(rw) ==
    [p \in 1..Len(rw) |->
        CHOOSE i \in 1..Len(rw) :
            Cardinality({j \in 1..Len(rw) : Ahead(rw, j, i)}) = p - 1]

\* dst.iter().take(n_expert_used)
TakeExperts(rw, k) == SubSeq(SortedExperts(rw), 1, Min(k, Len(rw)))

RECURSIVE SumWeights(_, _)
SumWeights(rw, sel) ==
    IF sel = <<>> THEN 0 ELSE rw[Head(sel)] + SumWeights(rw, Tail(sel))

\* mutant of Renormalize: the weight is stored as it is
Renormalize_Raw(routing_weight, sum_routing_weights) == <<routing_weight, 1>>

\* routing_weight / sum_routing_weights
Renormalize(routing_weight, sum_routing_weights) == <<routing_weight, sum_routing_weights>>

\* the row loop: after rows 1..r, top_x and selected_rws of every expert
RECURSIVE RouteRows(_, _, _)
RouteRows(rws, k, r) ==
    IF r = 0
    THEN [top_x |-> [e \in 1..NExperts |-> <<>>],
          selected_rws |-> [e \in 1..NExperts |-> <<>>]]
    ELSE LET prev == RouteRows(rws, k, r - 1)
             sel == TakeExperts(rws[r], k)
             chosen == {sel[p] : p \in 1..Len(sel)}
             sum == SumWeights(rws[r], sel)
         IN  [top_x |-> [e \in 1..NExperts |->
                           IF e \in chosen THEN Append(prev.top_x[e], r)
                           ELSE prev.top_x[e]],
              selected_rws |-> [e \in 1..NExperts |->
                           IF e \in chosen
                           THEN Append(prev.selected_rws[e], Renormalize(rws[r][e], sum))
                           ELSE prev.selected_rws[e]]]

MoEInit ==
    /\ PipeIdle
    /\ attn = AttnIdle
    /\ marsh = MarshIdle
    /\ ts = None
    /\ nm = None
    /\ pd = None
    /\ lg = None
    /\ qz = None
    /\ xp = None
    /\ xl = None
    /\ \E k \in 1..NExperts :
         \E rws \in {<<a>> : a \in RoutingRows}
                    \cup {<<a, b>> : a \in RoutingRows, b \in RoutingRows2} :
            moe = Some([n_expert_used |-> k, routing_weights |-> rws,
                        pc |-> "route",
                        top_x |-> [e \in 1..NExperts |-> <<>>],
                        selected_rws |-> [e \in 1..NExperts |-> <<>>],
                        taken |-> <<>>,
                        skipped |-> {},
                        ys |-> [r \in 1..Len(rws) |-> {}]])

Moe == Unwrap(moe)

\* the loop over the rows of routing_weights
MoeRoute ==
    /\ IsSome(moe)
    /\ Moe.pc = "route"
    /\ LET n == Len(Moe.routing_weights)
           r == RouteRows(Moe.routing_weights, Moe.n_expert_used, n)
       IN  moe' = Some([Moe EXCEPT !.pc = "experts",
                                   !.top_x = r.top_x,
                                   !.selected_rws = r.selected_rws,
                                   !.taken = [i \in 1..n |->
                                                TakeExperts(Moe.routing_weights[i],
                                                            Moe.n_expert_used)]])
    /\ UNCHANGED <<pipe, attn, marsh, lg, qz, xp, xl, pd, nm, ts>>

\* the loop over the experts: an expert with no row is skipped, the others
\* add selected_rws[j] * expert(xs[top_x[j]]) to row top_x[j] of ys
MoeExperts ==
    /\ IsSome(moe)
    /\ Moe.pc = "experts"
    /\ moe' = Some([Moe EXCEPT
            !.pc = "done",
            !.skipped = {e \in 1..NExperts : Moe.top_x[e] = <<>>},
            !.ys = [r \in 1..Len(Moe.routing_weights) |->
                      {[expert |-> e, w |-> Moe.selected_rws[e][j]] :
                          <<e, j>> \in {x \in (1..NExperts) \X (1..Len(Moe.routing_weights)) :
                                          /\ x[2] <= Len(Moe.top_x[x[1]])
                                          /\ Moe.top_x[x[1]][x[2]] = r}}]])
    /\ UNCHANGED <<pipe, attn, marsh, lg, qz, xp, xl, pd, nm, ts>>

MoENext ==
    \/ MoeRoute
    \/ MoeExperts

SpecMoE == MoEInit /\ [][MoENext]_vars

MoeRouted == IsSome(moe) /\ Moe.pc \in {"experts", "done"}

MoeRows == 1..Len(Moe.routing_weights)

\* the experts whose row list holds row r
ExpertsOfRow(r) == {e \in 1..NExperts : \E j \in 1..Len(Moe.top_x[e]) : Moe.top_x[e][j] = r}

\* the sum of a set of fractions <<num, den>>, as a fraction
RECURSIVE FracSum(_)
FracSum(S) ==
    IF S = {} THEN <<0, 1>>
    ELSE LET f == CHOOSE x \in S : TRUE
             rest == FracSum(S \ {f})
         IN  <<f.w[1] * rest[2] + rest[1] * f.w[2], f.w[2] * rest[2]>>

\* C21: with 1 <= k <= E, every row is given to exactly k distinct experts,
\* which hold the k largest weights of the row; the renormalized weights of a
\* row sum to 1; the j-th weight of an expert is the weight of its j-th row;
\* an expert without rows is skipped and contributes nothing, the others
\* contribute to their rows only.
C21_TopKRouting ==
    MoeRouted =>
        /\ \A r \in MoeRows :
             /\ Cardinality(ExpertsOfRow(r)) = Moe.n_expert_used
             /\ \A e \in ExpertsOfRow(r) :
                  /\ Cardinality({j \in 1..Len(Moe.top_x[e]) : Moe.top_x[e][j] = r}) = 1
                  /\ \A o \in (1..NExperts) \ ExpertsOfRow(r) :
                       Moe.routing_weights[r][e] >= Moe.routing_weights[r][o]
             /\ LET total == FracSum({[expert |-> e,
                                       w |-> Moe.selected_rws[e][CHOOSE j \in 1..Len(Moe.top_x[e]) :
                                                                    Moe.top_x[e][j] = r]] :
                                        e \in ExpertsOfRow(r)})
                IN  total[1] = total[2] /\ total[2] > 0
        /\ \A e \in 1..NExperts :
             /\ Len(Moe.selected_rws[e]) = Len(Moe.top_x[e])
             /\ \A j \in 1..Len(Moe.top_x[e]) :
                  LET r == Moe.top_x[e][j]
                      f == Moe.selected_rws[e][j]
                  IN  f[1] * SumWeights(Moe.routing_weights[r], Moe.taken[r])
                        = Moe.routing_weights[r][e] * f[2]
        /\ Moe.pc = "done" =>
             /\ Moe.skipped = {e \in 1..NExperts : \A r \in MoeRows : e \notin ExpertsOfRow(r)}
             /\ \A r \in MoeRows : {c.expert : c \in Moe.ys[r]} = ExpertsOfRow(r)

\* witness of C21: four experts with distinct weights in descending order,
\* top 2: the first two experts get the row, the other two are skipped
C21_Witness ==
    /\ IsSome(moe)
    /\ Moe.pc = "done"
    /\ Moe.n_expert_used = 2
    /\ Moe.routing_weights = <<[e \in 1..NExperts |-> IF e <= 3 THEN 4 - e ELSE 0]>>
    /\ ExpertsOfRow(1) = {1, 2}
    /\ {3, 4} \subseteq Moe.skipped

\* C22: the selection is a function of the routing weights: the experts of a
\* row are taken in descending weight order, equal weights in ascending index
\* order, and no expert left out comes before a taken one in that order; the
\* stored weights are those of the taken experts.
C22_TopKDeterministic ==
    MoeRouted =>
        \A r \in MoeRows :
            LET rw == Moe.routing_weights[r]
                sel == Moe.taken[r]
            IN  /\ Len(sel) = Moe.n_expert_used
                /\ \A p \in 1..Len(sel), q \in 1..Len(sel) :
                     p < q => \/ rw[sel[p]] > rw[sel[q]]
                              \/ rw[sel[p]] = rw[sel[q]] /\ sel[p] < sel[q]
                /\ \A o \in (1..NExperts) \ {sel[p] : p \in 1..Len(sel)} :
                     \A p \in 1..Len(sel) :
                        \/ rw[sel[p]] > rw[o]
                        \/ rw[sel[p]] = rw[o] /\ sel[p] < o
                /\ ExpertsOfRow(r) = {sel[p] : p \in 1..Len(sel)}

\* witness of C22: a row whose experts 2 and 3 tie for the last place taken
C22_Witness ==
    /\ MoeRouted
    /\ Moe.n_expert_used = 2
    /\ Moe.routing_weights[1][1] = 3
    /\ Moe.routing_weights[1][2] = 2
    /\ Moe.routing_weights[1][3] = 2
    /\ Moe.taken[1] = <<1, 2>>

(***************************************************************************)
(* SpecContinuity: one sequence of L + 1 tokens run twice from an empty    *)
(* cache: run a is a prefill step on the first L tokens followed by a      *)
(* decode step on the L + 1 tokens, run b is one prefill step on the       *)
(* L + 1 tokens.  Each step marshals the inputs, builds the mask, runs     *)
(* every decoder layer on the sequence's cache and extracts the logits.    *)
(***************************************************************************)
\* the longest prompt of run a
ScenarioLen == 5

\* the models of the two runs: max positions ScenarioLen + 1; Mistral
\* without a window, with a window of 2 and with a window of ScenarioLen + 1
ContinuityConfigs ==
    {Config(fam, None, ScenarioLen + 1, 2, 1, 2) : fam \in {"phi2", "qllama", "mistral"}}
    \cup {Config("llama", None, ScenarioLen + 1, 3, 1, 4)}
    \cup {Config("mistral", Some(w), ScenarioLen + 1, 2, 1, 2) : w \in {2, ScenarioLen + 1}}
    \cup {Config("qphi3", Some(ScenarioLen + 1), ScenarioLen + 1, 2, 2, 2)}

\* a run before its first step: run.pc is the step about to be made
\* ("prefill", "decode", then "done" or "failed"), run.layer the position in
\* that step: 0 before the forward, 1..NLayers in the decoder loop,
\* NLayers + 1 at the head
RunIdle ==
    [pc |-> "prefill", layer |-> 0, q |-> 0, off |-> 0, mask |-> None, ropeOk |-> TRUE,
     lens |-> <<>>, store |-> [l \in 1..NLayers |-> None], pos |-> 0, logit |-> 0]

ContinuityInit ==
    /\ PipeIdle
    /\ attn = AttnIdle
    /\ marsh = MarshIdle
    /\ ts = None
    /\ nm = None
    /\ lg = None
    /\ qz = None
    /\ xp = None
    /\ xl = None
    /\ moe = None
    /\ \E cfg \in ContinuityConfigs : \E L \in 1..ScenarioLen :
         \E toks \in [1..L + 1 -> TokenIds] :
            pd = Some([cfg |-> cfg, L |-> L, toks |-> toks, a |-> RunIdle, b |-> RunIdle])

Pd == Unwrap(pd)

\* the tokens of the sequence at a step: run a prefills the first L tokens,
\* the sampler appends token L + 1 before its decode step
StepToks(name, run) == IF name = "a" /\ run.pc = "prefill" THEN SubSeq(Pd.toks, 1, Pd.L) ELSE Pd.toks

\* the step that follows: run a decodes after its prefill
StepAfter(name, run) == IF name = "a" /\ run.pc = "prefill" THEN "decode" ELSE "done"

\* Pipeline::step up to the decoder loop: the inputs are marshalled, the
\* sequence's cache is the store, the mask is built
RunBegin(name, run) ==
    /\ run.pc \in {"prefill", "decode"}
    /\ run.layer = 0
    /\ \E inp \in {calculate_inputs(<<StepToks(name, run)>>, run.pc = "prefill", FALSE, FALSE)} :
         \E q \in {Len(inp.v.input_ids[1])} :
           \E ropeOk \in RotaryOutcomes(Pd.cfg, inp.v.seqlen_offsets, q) :
             pd' = Some([Pd EXCEPT ![name] =
                        [run EXCEPT !.layer = 1, !.q = q, !.off = inp.v.seqlen_offsets[1],
                                    !.mask = make_causal_mask(q, run.store),
                                    !.ropeOk = ropeOk, !.lens = inp.v.context_lens]])

\* one layer of the decoder loop
RunLayer(name, run) ==
    /\ run.pc \in {"prefill", "decode"}
    /\ run.layer \in 1..NLayers
    /\ \E r \in {AttnForward(Pd.cfg, run.store[run.layer], 1, run.q, run.mask, run.ropeOk, TRUE)} :
         pd' = Some([Pd EXCEPT ![name] =
                    [run EXCEPT !.store[run.layer] = IF r.wrote THEN r.slot ELSE @,
                                !.layer = IF r.ok THEN @ + 1 ELSE 0,
                                !.pc = IF r.ok THEN @ ELSE "failed"]])

\* the head of the model and the end of the step: pos is the position of the
\* last submitted token, logit the position of the token whose logits are
\* extracted
RunHead(name, run) ==
    /\ run.pc \in {"prefill", "decode"}
    /\ run.layer = NLayers + 1
    /\ \E lgts \in {ModelLogits(Pd.cfg, 1, run.q, run.lens)} :
         pd' = Some([Pd EXCEPT ![name] =
                    IF lgts.st # "ok" THEN [run EXCEPT !.pc = "failed", !.layer = 0]
                    ELSE [run EXCEPT !.pc = StepAfter(name, run), !.layer = 0,
                                     !.pos = run.off + run.q - 1,
                                     !.logit = run.off + lgts.v[1][2]]])

\* run a: a prefill step on the first L tokens, then a decode step
StepA ==
    /\ IsSome(pd)
    /\ \/ RunBegin("a", Pd.a)
       \/ RunLayer("a", Pd.a)
       \/ RunHead("a", Pd.a)
    /\ UNCHANGED <<pipe, attn, marsh, lg, qz, xp, xl, moe, nm, ts>>

\* run b: one prefill step on the L + 1 tokens
StepB ==
    /\ IsSome(pd)
    /\ Pd.b.pc = "prefill"
    /\ \/ RunBegin("b", Pd.b)
       \/ RunLayer("b", Pd.b)
       \/ RunHead("b", Pd.b)
    /\ UNCHANGED <<pipe, attn, marsh, lg, qz, xp, xl, moe, nm, ts>>

ContinuityNext == StepA \/ StepB

SpecContinuity == ContinuityInit /\ [][ContinuityNext]_vars

\* both runs are over
BothRunsOver == IsSome(pd) /\ Pd.a.pc \in {"done", "failed"} /\ Pd.b.pc \in {"done", "failed"}

\* the ids of the keys cached in layer l of a run: id i is the key of position i - 1
KeysOf(run, l) == IF IsSome(run.store[l]) THEN Unwrap(run.store[l]).k.t ELSE <<>>

\* both runs succeeded, placed the final token at position L, cached the keys
\* of positions 0..L in every layer and extracted the logits of position L
SameFinalToken ==
    /\ Pd.a.pc = "done" /\ Pd.b.pc = "done"
    /\ Pd.a.pos = Pd.L /\ Pd.b.pos = Pd.L
    /\ \A l \in 1..NLayers :
         /\ KeysOf(Pd.a, l) = [i \in 1..Pd.L + 1 |-> i]
         /\ KeysOf(Pd.b, l) = KeysOf(Pd.a, l)
    /\ Pd.a.logit = Pd.L /\ Pd.b.logit = Pd.L

NormalModels == {"Llama", "Mistral", "Phi2", "XLoraLlama", "XLoraGemma"}

\* fn is_xlora(&self) of each implementation
is_xlora(m) == m = "XLoraLlama"

\* the body of NormalModel::forward of each implementation
ForwardBody(m) == IF m \in {"XLoraLlama", "XLoraGemma"} THEN "unreachable" ELSE "forward"

\* the body of NormalModel::xlora_forward of each implementation
XLoraForwardBody(m) == IF m \in {"XLoraLlama", "XLoraGemma"} THEN "forward" ELSE "unimplemented"

\* the method a caller dispatching on is_xlora() enters
DispatchOn(xlora) == IF xlora THEN "xlora_forward" ELSE "forward"

DispatchInit ==
    /\ PipeIdle
    /\ attn = AttnIdle
    /\ marsh = MarshIdle
    /\ ts = None
    /\ lg = None
    /\ qz = None
    /\ xp = None
    /\ xl = None
    /\ moe = None
    /\ pd = None
    /\ \E m \in NormalModels : \E b \in Batches \ {<<>>} : \E is_prompt \in BOOLEAN :
         nm = Some([impl |-> m, seqs |-> b, is_prompt |-> is_prompt,
                    inputs |-> None, pc |-> "call"])

Nm == Unwrap(nm)

\* the caller marshals the batch and picks the method
Dispatch ==
    /\ IsSome(nm)
    /\ Nm.pc = "call"
    /\ LET inp == calculate_inputs(Nm.seqs, Nm.is_prompt, is_xlora(Nm.impl), FALSE)
       IN  nm' = Some([Nm EXCEPT !.inputs = Some(inp.v),
                                 !.pc = DispatchOn(is_xlora(Nm.impl))])
    /\ UNCHANGED <<pipe, attn, marsh, lg, qz, xp, xl, moe, pd, ts>>

\* NormalModel::forward of the implementation runs
PlainForward ==
    /\ IsSome(nm)
    /\ Nm.pc = "forward"
    /\ nm' = Some([Nm EXCEPT !.pc = IF ForwardBody(Nm.impl) = "forward"
                                    THEN "returned" ELSE "panicked"])
    /\ UNCHANGED <<pipe, attn, marsh, lg, qz, xp, xl, moe, pd, ts>>

\* NormalModel::xlora_forward of the implementation runs
XLoraForward ==
    /\ IsSome(nm)
    /\ Nm.pc = "xlora_forward"
    /\ nm' = Some([Nm EXCEPT !.pc = IF XLoraForwardBody(Nm.impl) = "forward"
                                    THEN "returned" ELSE "panicked"])
    /\ UNCHANGED <<pipe, attn, marsh, lg, qz, xp, xl, moe, pd, ts>>

DispatchNext == Dispatch \/ PlainForward \/ XLoraForward

SpecDispatch == DispatchInit /\ [][DispatchNext]_vars

\* C29: is_xlora() is true exactly for the implementations whose
\* xlora_forward is implemented and whose forward is unreachable, so the
\* method entered by a caller dispatching on is_xlora() never panics
C29_DispatchReachesImplemented ==
    (IsSome(nm) /\ Nm.pc \in {"returned", "panicked"}) =>
        /\ is_xlora(Nm.impl) <=> (XLoraForwardBody(Nm.impl) = "forward"
                                    /\ ForwardBody(Nm.impl) = "unreachable")
        /\ Nm.pc # "panicked"

(***************************************************************************)
(* SpecToml: the [model] table of a TOML selector file, deserialized into  *)
(* the untagged enum TomlModelSelected and turned into a loader.  A table  *)
(* is the set of the keys it holds (every value of the right type).  An    *)
(* untagged enum takes the first variant, in declaration order, that       *)
(* deserializes; a struct variant deserializes when its fields without     *)
(* Option and without default are present, other keys are ignored.         *)
(***************************************************************************)
TomlFields ==
    {"model_id", "arch", "xlora_model_id", "adapters_model_id", "order",
     "tgt_non_granular_index", "tok_model_id", "quantized_model_id",
     "quantized_filename", "gqa"}

Variant(name, required, optional) == [name |-> name, required |-> required, optional |-> optional]

\* the fields every quantized variant requires
QuantizedFields == {"quantized_model_id", "quantized_filename"}

\* enum TomlModelSelected, in declaration order
TomlModelSelected ==
    << Variant("Plain", {"model_id", "arch"}, {}),
       Variant("XLora", {"xlora_model_id", "order", "arch"},
               {"model_id", "tgt_non_granular_index"}),
       Variant("Lora", {"adapters_model_id", "order", "arch"}, {"model_id"}),
       Variant("GGUF", {"tok_model_id"} \cup QuantizedFields, {}),
       Variant("XLoraGGUF", QuantizedFields \cup {"xlora_model_id", "order"},
               {"tok_model_id", "tgt_non_granular_index"}),
       Variant("LoraGGUF", QuantizedFields \cup {"adapters_model_id", "order"},
               {"tok_model_id"}),
       Variant("GGML", {"tok_model_id"} \cup QuantizedFields, {"gqa"}),
       Variant("XLoraGGML", QuantizedFields \cup {"xlora_model_id", "order"},
               {"tok_model_id", "tgt_non_granular_index", "gqa"}),
       Variant("LoraGGML", QuantizedFields \cup {"adapters_model_id", "order"},
               {"tok_model_id", "gqa"}) >>

\* variant i deserializes from the table
VariantAccepts(i, table) == TomlModelSelected[i].required \subseteq table

\* #[serde(untagged)]: the first variant that deserializes, or an error
DeserializeModel(table) ==
    IF \E i \in 1..Len(TomlModelSelected) : VariantAccepts(i, table)
    THEN Ok(TomlModelSelected[CHOOSE i \in 1..Len(TomlModelSelected) :
                /\ VariantAccepts(i, table)
                /\ \A j \in 1..(i - 1) : ~VariantAccepts(j, table)].name)
    ELSE Err

\* loader_from_selected: the builder and the adapter of each variant
loader_from_selected(name) ==
    [builder |-> CASE name \in {"Plain", "XLora", "Lora"} -> "NormalLoaderBuilder"
                   [] name \in {"GGUF", "XLoraGGUF", "LoraGGUF"} -> "GGUFLoaderBuilder"
                   [] name \in {"GGML", "XLoraGGML", "LoraGGML"} -> "GGMLLoaderBuilder",
     adapter |-> CASE name \in {"Plain", "GGUF", "GGML"} -> "none"
                   [] name \in {"XLora", "XLoraGGUF", "XLoraGGML"} -> "with_xlora"
                   [] name \in {"Lora", "LoraGGUF", "LoraGGML"} -> "with_lora"]

TomlInit ==
    /\ PipeIdle
    /\ attn = AttnIdle
    /\ marsh = MarshIdle
    /\ lg = None
    /\ qz = None
    /\ xp = None
    /\ xl = None
    /\ moe = None
    /\ pd = None
    /\ nm = None
    /\ \E table \in SUBSET TomlFields :
         ts = Some([table |-> table, pc |-> "parse", selected |-> None, loader |-> None])

Ts == Unwrap(ts)

\* toml::from_str of the selector file: the model table becomes a variant
TomlDeserialize ==
    /\ IsSome(ts)
    /\ Ts.pc = "parse"
    /\ LET r == DeserializeModel(Ts.table)
       IN  ts' = Some(IF r.st = "ok"
                      THEN [Ts EXCEPT !.pc = "selected", !.selected = Some(r.v)]
                      ELSE [Ts EXCEPT !.pc = "error"])
    /\ UNCHANGED <<pipe, attn, marsh, lg, qz, xp, xl, moe, pd, nm>>

\* try_into: loader_from_selected on the variant
TomlBuildLoader ==
    /\ IsSome(ts)
    /\ Ts.pc = "selected"
    /\ ts' = Some([Ts EXCEPT !.pc = "built",
                             !.loader = Some(loader_from_selected(Unwrap(Ts.selected)))])
    /\ UNCHANGED <<pipe, attn, marsh, lg, qz, xp, xl, moe, pd, nm>>

TomlNext == TomlDeserialize \/ TomlBuildLoader

SpecToml == TomlInit /\ [][TomlNext]_vars

\* the table holds exactly documented fields of variant i: the required
\* ones and any of the optional ones
DocumentedTable(i, table) ==
    /\ TomlModelSelected[i].required \subseteq table
    /\ table \subseteq TomlModelSelected[i].required \cup TomlModelSelected[i].optional

\* C30: a table holding exactly the documented fields of a variant yields
\* that variant's loader; no variant is shadowed by an earlier one
C30_EveryVariantSelectable ==
    (IsSome(ts) /\ Ts.pc \in {"built", "error"}) =>
        \A i \in 1..Len(TomlModelSelected) :
            DocumentedTable(i, Ts.table) =>
                /\ Ts.pc = "built"
                /\ Ts.selected = Some(TomlModelSelected[i].name)
                /\ Ts.loader = Some(loader_from_selected(TomlModelSelected[i].name))

====
